---- MODULE Spec2Model ----
(***************************************************************************)
(* State-machine model of the identity and session core of FinaiFlow:      *)
(* password authentication with lockout, the refresh-token lifecycle, the  *)
(* TOTP second factor, OAuth2 federation and the passwordless flows.       *)
(*                                                                         *)
(* Time is counted in whole seconds (the resolution of a JWT "exp" claim). *)
(* An optional value is a sequence: None is << >>, Some(x) is << x >>.     *)
(***************************************************************************)
EXTENDS Integers, Sequences, FiniteSets, Bags, TLC

VARIABLES
    now,          \* datetime.utcnow(), in seconds
    ticks,        \* how many times the clock has advanced
    users,        \* table "users": id -> row
    auth_tokens,  \* table "auth_tokens": a bag of rows
    issued,       \* history: the raw refresh tokens handed to callers
    revokedRaw,   \* history: raw tokens whose StoredToken was marked revoked
    loggedOut,    \* history: raw tokens issued to a user before a revoke_all_user_tokens of that user
    two_factor,   \* table "two_factor_auth": principal -> optional row
    needsSetup,   \* history: principals that disabled 2FA and have not run setup_2fa since
    cache,        \* Redis: key -> [value, expires_at]
    outbox,       \* notifications handed to send_email.delay
    tokenSeq,     \* how many secure tokens generate_secure_token has drawn
    proc,         \* the redemption each worker is in the middle of
    returned,     \* history: ephemeral tokens whose redemption has returned
    oauth_accounts, \* table "oauth2_accounts", a bag of rows
    resolved,     \* history: << provider, subject id, principal >> returned
    mismatches,   \* history: per principal, the run of recorded mismatches
    last          \* history: the last operation, its inputs and its outcome

vars == << now, ticks, users, auth_tokens, issued, revokedRaw, loggedOut,
          two_factor, needsSetup,
          cache, outbox, tokenSeq, proc, returned, oauth_accounts, resolved,
          mismatches, last >>

clockVars == << now, ticks >>
tokenVars == << auth_tokens, issued, revokedRaw, loggedOut >>
totpVars == << two_factor, needsSetup >>
magicVars == << cache, outbox, tokenSeq, proc, returned >>
oauthVars == << oauth_accounts, resolved >>

None == << >>
Some(x) == << x >>

(***************************************************************************)
(* Bounds of the model.                                                    *)
(***************************************************************************)
MaxTicks == 2
MaxTokens == 2
BackupCount == 2
MaxIssued == 2
MaxLinks == 1
\* requests admitted per window (settings.RATE_LIMIT_REQUESTS and
\* EndpointRateLimiter.requests, scaled down)
RequestsPerWindow == 2

(***************************************************************************)
(* Program constants.                                                      *)
(***************************************************************************)
LOCKOUT_THRESHOLD == 5
LOCKOUT_SECONDS == 1800
ACCESS_TOKEN_EXPIRE_MINUTES == 30
REFRESH_TOKEN_EXPIRE_DAYS == 7
SECONDS_PER_DAY == 86400
REVOKED_DAYS_TO_KEEP == 7
TOTP_INTERVAL == 30
TOTP_WINDOW == 1
MAX_REQUESTS_PER_WINDOW == 3
RATE_LIMIT_WINDOW == 60
TOKEN_EXPIRY_MINUTES == 15

(***************************************************************************)
(* The clock.                                                              *)
(***************************************************************************)
Tick(d) ==
    /\ ticks < MaxTicks
    /\ now' = now + d
    /\ ticks' = ticks + 1

(***************************************************************************)
(* Principals.  u1 has a password, u2 was created without one (federated   *)
(* sign-up leaves hashed_password NULL).                                   *)
(***************************************************************************)
UserIds == {"u1", "u2"}
Emails == {"a@x.com", "b@x.com", "nobody@x.com"}
Passwords == {"good", "bad"}

\* passlib bcrypt: a hash verifies exactly the password it was made from
HashPassword(password) == << "bcrypt", password >>

\* User.verify_password
VerifyPassword(user, password) ==
    IF user.hashed_password = None
    THEN FALSE
    ELSE user.hashed_password = Some(HashPassword(password))

NewUser(email, hashed, tenant) ==
    [ email                 |-> email,
      hashed_password       |-> hashed,
      failed_login_attempts |-> 0,
      locked_until          |-> None,
      is_active             |-> TRUE,
      is_email_verified        |-> FALSE,
      email_verification_token |-> None,
      password_reset_token     |-> None,
      password_reset_expires   |-> None,
      tenant_id             |-> tenant ]

InitialUsers ==
    [ u \in UserIds |->
        IF u = "u1"
        THEN NewUser("a@x.com", Some(HashPassword("good")), "t1")
        ELSE NewUser("b@x.com", None, "t1") ]

InitUsers == users = InitialUsers

\* select(User).where(User.email == email) ... scalar_one_or_none()
UserByEmail(us, email) ==
    LET ids == { u \in DOMAIN us : us[u].email = email }
    IN  IF ids = {} THEN None ELSE Some(CHOOSE u \in ids : TRUE)

\* the lockout test of authenticate_user
IsLocked(user, t) ==
    /\ user.locked_until # None
    /\ user.locked_until[1] > t

RecordMismatchLate(user, t) ==
    LET n == user.failed_login_attempts + 1
    IN  [ user EXCEPT !.failed_login_attempts = n,
                      !.locked_until =
                          IF n > LOCKOUT_THRESHOLD
                          THEN Some(t + LOCKOUT_SECONDS)
                          ELSE user.locked_until ]

\* the mismatch branch of authenticate_user
RecordMismatch(user, t) ==
    LET n == user.failed_login_attempts + 1
    IN  [ user EXCEPT !.failed_login_attempts = n,
                      !.locked_until =
                          IF n >= LOCKOUT_THRESHOLD
                          THEN Some(t + LOCKOUT_SECONDS)
                          ELSE user.locked_until ]

\* the success branch of authenticate_user
ResetAttempts(user) ==
    [ user EXCEPT !.failed_login_attempts = 0, !.locked_until = None ]

\* AuthService.authenticate_user: the table afterwards and what is returned
\* or raised.
AuthenticateUser(us, email, password, t) ==
    LET found == UserByEmail(us, email)
    IN  IF found = None
        THEN [ users |-> us, ok |-> FALSE, user |-> None,
               error |-> "Invalid credentials" ]
        ELSE LET u == found[1]
             IN  IF IsLocked(us[u], t)
                 THEN [ users |-> us, ok |-> FALSE, user |-> found,
                        error |-> "Account is temporarily locked" ]
                 ELSE IF ~VerifyPassword(us[u], password)
                 THEN [ users |-> [ us EXCEPT ![u] = RecordMismatch(us[u], t) ],
                        ok |-> FALSE, user |-> found,
                        error |-> "Invalid credentials" ]
                 ELSE [ users |-> [ us EXCEPT ![u] = ResetAttempts(us[u]) ],
                        ok |-> TRUE, user |-> found, error |-> "" ]

(***************************************************************************)
(* History of recorded mismatches, kept beside the program state: n is the *)
(* number of consecutive calls that ended in the mismatch branch, fifthAt  *)
(* the time at which n reached the threshold.                              *)
(***************************************************************************)
InitMismatches ==
    mismatches = [ u \in UserIds |-> [ n |-> 0, fifthAt |-> None ] ]

NoteOutcome(r, password, t) ==
    IF r.user = None \/ r.error = "Account is temporarily locked"
    THEN mismatches
    ELSE LET u == r.user[1]
         IN  IF r.ok
             THEN [ mismatches EXCEPT ![u] = [ n |-> 0, fifthAt |-> None ] ]
             ELSE [ mismatches EXCEPT ![u] =
                      [ n |-> @.n + 1,
                        fifthAt |-> IF @.n + 1 = LOCKOUT_THRESHOLD
                                    THEN Some(t) ELSE @.fifthAt ] ]

(***************************************************************************)
(* Specification SpecLockout: password authentication and the clock.       *)
(***************************************************************************)
LockoutSteps == {1, LOCKOUT_SECONDS - 1}

\* the variables this specification leaves alone
othersLockout == << tokenVars, totpVars, magicVars, oauthVars >>

AuthenticateUserCall(email, password) ==
    LET r == AuthenticateUser(users, email, password, now)
    IN  /\ users' = r.users
        /\ mismatches' = NoteOutcome(r, password, now)
        /\ last' = [ op |-> "authenticate_user", email |-> email,
                     password |-> password, at |-> now,
                     ok |-> r.ok, error |-> r.error, user |-> r.user,
                     pre |-> users, preMismatches |-> mismatches ]
        /\ UNCHANGED << clockVars, othersLockout >>

LockoutTick(d) ==
    /\ Tick(d)
    /\ UNCHANGED << users, mismatches, last, othersLockout >>

InitLast == last = [ op |-> "none" ]

InitTokens ==
    /\ auth_tokens = EmptyBag
    /\ issued = {}
    /\ revokedRaw = {}
    /\ loggedOut = {}

InitTwoFactor ==
    /\ two_factor = [ u \in UserIds |-> None ]
    /\ needsSetup = {}

Workers == {"w1", "w2"}

InitMagic ==
    /\ cache = [ k \in {} |-> None ]
    /\ outbox = {}
    /\ tokenSeq = 0
    /\ proc = [ w \in Workers |-> [ pc |-> "idle" ] ]
    /\ returned = {}
    /\ oauth_accounts = EmptyBag
    /\ resolved = {}

InitLockout ==
    /\ now = 0
    /\ ticks = 0
    /\ InitUsers
    /\ InitTokens
    /\ InitTwoFactor
    /\ InitMagic
    /\ InitMismatches
    /\ InitLast

NextLockout ==
    \/ \E e \in Emails, p \in Passwords : AuthenticateUserCall(e, p)
    \/ \E d \in LockoutSteps : LockoutTick(d)

SpecLockout == InitLockout /\ [][NextLockout]_vars

(***************************************************************************)
(* C1: once authenticate_user has recorded 5 consecutive password          *)
(* mismatches for a principal, every later authenticate_user call for that *)
(* principal made less than 30 minutes after the fifth mismatch fails as   *)
(* account-locked, whatever password it supplies; and a call made while    *)
(* locked_until lies in the future fails as account-locked.                *)
(***************************************************************************)
C1_Lockout ==
    (last.op = "authenticate_user" /\ last.user # None) =>
        LET u == last.user[1]
            m == last.preMismatches[u]
            row == last.pre[u]
            locked == ~last.ok /\ last.error = "Account is temporarily locked"
        IN  /\ (m.n >= LOCKOUT_THRESHOLD /\ m.fifthAt # None
                  /\ last.at < m.fifthAt[1] + LOCKOUT_SECONDS) => locked
            /\ (row.locked_until # None /\ row.locked_until[1] > last.at)
                  => locked

\* the correct password is refused one second before the window ends
C1_Witness ==
    /\ last.op = "authenticate_user"
    /\ last.user = Some("u1")
    /\ last.password = "good"
    /\ last.preMismatches["u1"].n = LOCKOUT_THRESHOLD
    /\ last.at = last.preMismatches["u1"].fifthAt[1] + LOCKOUT_SECONDS - 1
    /\ ~last.ok
    /\ last.error = "Account is temporarily locked"

(***************************************************************************)
(* Signed tokens (SecurityManager).  A JWT is determined by its claims and *)
(* the signing key: the model keeps the claims and who signed it.  "exp"   *)
(* is a whole number of seconds.                                           *)
(***************************************************************************)
\* SecurityManager.create_access_token
CreateAccessToken(data, t) ==
    [ sub |-> data.sub, tenant_id |-> data.tenant_id,
      exp |-> t + ACCESS_TOKEN_EXPIRE_MINUTES * 60,
      type |-> "access", sig |-> "server" ]

\* SecurityManager.create_refresh_token
CreateRefreshToken(data, t) ==
    [ sub |-> data.sub, tenant_id |-> "",
      exp |-> t + REFRESH_TOKEN_EXPIRE_DAYS * SECONDS_PER_DAY,
      type |-> "refresh", sig |-> "server" ]

\* a token signed with another key
ForgedToken ==
    [ sub |-> "u1", tenant_id |-> "", exp |-> 0, type |-> "refresh",
      sig |-> "forged" ]

\* SecurityManager.hash_token: SHA-256 of the token text
HashToken(token) == << "sha256", token >>

\* jwt.decode's expiry test
JwtExpired(token, t) == token.exp <= t

\* SecurityManager.verify_token: "ok" or the failure
VerifyToken(token, token_type, t) ==
    IF token.sig # "server" THEN "invalid"
    ELSE IF JwtExpired(token, t) THEN "expired"
    ELSE IF token.type # token_type THEN "type_mismatch"
    ELSE "ok"

(***************************************************************************)
(* Stored tokens.  The table auth_tokens is a bag (multiset) of rows: no   *)
(* query of the program reads AuthToken.id, so two rows with equal columns *)
(* are two copies of one element.                                          *)
(***************************************************************************)
\* AuthToken.is_expired
IsExpired(row, t) == t > row.expires_at

\* AuthToken.is_valid
IsValid(row, t) == ~(row.is_revoked \/ IsExpired(row, t))

\* the rows of a table that a WHERE clause selects, as a bag
Where(table, P(_)) ==
    [ r \in { x \in DOMAIN table : P(x) } |-> table[r] ]

\* UPDATE of one copy of row r
UpdateOne(table, r, new) == (table (-) SetToBag({r})) (+) SetToBag({new})

\* AuthService.create_tokens: the response and the table afterwards
CreateTokens(tokens, us, u, t) ==
    LET access == CreateAccessToken(
                      [ sub |-> u, tenant_id |-> us[u].tenant_id ], t)
        refresh == CreateRefreshToken([ sub |-> u ], t)
        row == [ token_type   |-> "refresh",
                 token_hash   |-> HashToken(refresh),
                 expires_at   |-> t + REFRESH_TOKEN_EXPIRE_DAYS * SECONDS_PER_DAY,
                 is_revoked   |-> FALSE,
                 last_used_at |-> None,
                 updated_at   |-> t,
                 user_id      |-> u ]
    IN  [ tokens |-> tokens (+) SetToBag({row}),
          response |-> [ access_token |-> access, refresh_token |-> refresh,
                         token_type |-> "bearer",
                         expires_in |-> ACCESS_TOKEN_EXPIRE_MINUTES * 60 ] ]

\* the query of refresh_access_token
RefreshCandidates(tokens, refresh_token) ==
    Where(tokens, LAMBDA r : /\ r.token_hash = HashToken(refresh_token)
                             /\ r.token_type = "refresh"
                             /\ r.is_revoked = FALSE)

\* AuthService.refresh_access_token: every failure leaves as
\* AuthenticationError("Token refresh failed"); scalar_one_or_none raises
\* when the query selects more than one row
RefreshAccessToken(tokens, us, refresh_token, t) ==
    LET failed == [ tokens |-> tokens, ok |-> FALSE,
                    error |-> "Token refresh failed", response |-> None ]
        found == RefreshCandidates(tokens, refresh_token)
    IN  IF VerifyToken(refresh_token, "refresh", t) # "ok" THEN failed
        ELSE IF BagCardinality(found) # 1 THEN failed
        ELSE LET row == CHOOSE r \in DOMAIN found : TRUE
                 u == refresh_token.sub
             IN  IF IsExpired(row, t) THEN failed
                 ELSE IF u \notin DOMAIN us \/ ~us[u].is_active THEN failed
                 ELSE [ tokens |-> UpdateOne(tokens, row,
                                     [ row EXCEPT !.last_used_at = Some(t),
                                                  !.updated_at = t ]),
                        ok |-> TRUE, error |-> "",
                        response |-> Some(
                          [ access_token |-> CreateAccessToken(
                                [ sub |-> u, tenant_id |-> us[u].tenant_id ], t),
                            refresh_token |-> refresh_token,
                            token_type |-> "bearer",
                            expires_in |-> ACCESS_TOKEN_EXPIRE_MINUTES * 60 ]) ]

\* AuthService.revoke_token: more than one matching row makes
\* scalar_one_or_none raise, which the handler turns into False
RevokeToken(tokens, refresh_token, user_id, t) ==
    LET found == Where(tokens, LAMBDA r : /\ r.token_hash = HashToken(refresh_token)
                                          /\ r.user_id = user_id
                                          /\ r.token_type = "refresh")
    IN  IF BagCardinality(found) # 1
        THEN [ tokens |-> tokens, result |-> FALSE, marked |-> {} ]
        ELSE LET row == CHOOSE r \in DOMAIN found : TRUE
             IN  [ tokens |-> UpdateOne(tokens, row,
                                [ row EXCEPT !.is_revoked = TRUE,
                                             !.updated_at =
                                                 IF row.is_revoked THEN @ ELSE t ]),
                   result |-> TRUE, marked |-> {row} ]

\* AuthService.revoke_all_user_tokens
RevokeAllUserTokens(tokens, user_id, t) ==
    LET Selected(r) == /\ r.user_id = user_id
                       /\ r.token_type = "refresh"
                       /\ r.is_revoked = FALSE
        found == Where(tokens, Selected)
    IN  [ tokens |-> BagOfAll(LAMBDA r : IF Selected(r)
                                         THEN [ r EXCEPT !.is_revoked = TRUE,
                                                         !.updated_at = t ]
                                         ELSE r,
                              tokens),
          result |-> BagCardinality(found), marked |-> DOMAIN found ]

\* cleanup_expired_tokens
CleanupExpiredTokens(tokens, t) ==
    Where(tokens, LAMBDA r : ~(r.expires_at < t))

\* cleanup_revoked_tokens
CleanupRevokedTokens(tokens, t) ==
    Where(tokens, LAMBDA r :
        ~(r.is_revoked /\ r.updated_at < t - REVOKED_DAYS_TO_KEEP * SECONDS_PER_DAY))

(***************************************************************************)
(* Specification SpecTokens: the refresh-token lifecycle.  The clock moves *)
(* through the instants at which a token issued at 0 is fresh, is at its   *)
(* expiry time, and is past it.                                            *)
(***************************************************************************)
TokenInstants ==
    << 0, REFRESH_TOKEN_EXPIRE_DAYS * SECONDS_PER_DAY,
       REFRESH_TOKEN_EXPIRE_DAYS * SECONDS_PER_DAY + 1 >>

othersTokens == << mismatches, totpVars, magicVars, oauthVars >>

\* the raw tokens a caller can present
RawTokens == issued \cup {ForgedToken}

\* the raw tokens behind the given rows
RawOf(rows) == { r.token_hash[2] : r \in rows }

\* a login path reaching create_tokens for principal u
CreateTokensCall(u) ==
    LET r == CreateTokens(auth_tokens, users, u, now)
    IN  /\ BagCardinality(auth_tokens) < MaxTokens
        /\ auth_tokens' = r.tokens
        /\ issued' = issued \cup {r.response.refresh_token}
        /\ last' = [ op |-> "create_tokens", user |-> u,
                     expires_in |-> r.response.expires_in ]
        /\ UNCHANGED << clockVars, users, revokedRaw, loggedOut, othersTokens >>

RefreshCall(raw) ==
    LET r == RefreshAccessToken(auth_tokens, users, raw, now)
    IN  /\ auth_tokens' = r.tokens
        /\ last' = [ op |-> "refresh_access_token", token |-> raw,
                     ok |-> r.ok, wasRevoked |-> raw \in revokedRaw,
                     error |-> r.error, response |-> r.response ]
        /\ UNCHANGED << clockVars, users, issued, revokedRaw, loggedOut, othersTokens >>

RevokeTokenCall(raw, u) ==
    LET r == RevokeToken(auth_tokens, raw, u, now)
    IN  /\ auth_tokens' = r.tokens
        /\ revokedRaw' = revokedRaw \cup RawOf(r.marked)
        /\ last' = [ op |-> "revoke_token", token |-> raw, user |-> u,
                     result |-> r.result ]
        /\ UNCHANGED << clockVars, users, issued, loggedOut, othersTokens >>

RevokeAllCall(u) ==
    LET r == RevokeAllUserTokens(auth_tokens, u, now)
    IN  /\ auth_tokens' = r.tokens
        /\ revokedRaw' = revokedRaw \cup RawOf(r.marked)
        /\ loggedOut' = loggedOut \cup { raw \in issued : raw.sub = u }
        /\ last' = [ op |-> "revoke_all_user_tokens", user |-> u,
                     result |-> r.result ]
        /\ UNCHANGED << clockVars, users, issued, othersTokens >>

CleanupExpiredCall ==
    /\ auth_tokens' = CleanupExpiredTokens(auth_tokens, now)
    /\ last' = [ op |-> "cleanup_expired_tokens" ]
    /\ UNCHANGED << clockVars, users, issued, revokedRaw, loggedOut, othersTokens >>

CleanupRevokedCall ==
    /\ auth_tokens' = CleanupRevokedTokens(auth_tokens, now)
    /\ last' = [ op |-> "cleanup_revoked_tokens" ]
    /\ UNCHANGED << clockVars, users, issued, revokedRaw, loggedOut, othersTokens >>

TokensTick ==
    /\ ticks + 1 < Len(TokenInstants)
    /\ ticks' = ticks + 1
    /\ now' = TokenInstants[ticks + 2]
    /\ UNCHANGED << users, tokenVars, last, othersTokens >>

InitTokenSpec ==
    /\ now = TokenInstants[1]
    /\ ticks = 0
    /\ InitUsers
    /\ InitTokens
    /\ InitTwoFactor
    /\ InitMagic
    /\ InitMismatches
    /\ InitLast

NextTokens ==
    \/ \E u \in DOMAIN users : CreateTokensCall(u)
    \/ \E raw \in RawTokens : RefreshCall(raw)
    \/ \E raw \in RawTokens, u \in DOMAIN users : RevokeTokenCall(raw, u)
    \/ \E u \in DOMAIN users : RevokeAllCall(u)
    \/ CleanupExpiredCall
    \/ CleanupRevokedCall
    \/ TokensTick

SpecTokens == InitTokenSpec /\ [][NextTokens]_vars

(***************************************************************************)
(* C2: once revoke_token or revoke_all_user_tokens has marked the          *)
(* StoredToken of a raw refresh token revoked, no later                    *)
(* refresh_access_token call with that raw token returns an access token.  *)
(***************************************************************************)
C2_RevokedNeverRefreshes ==
    (last.op = "refresh_access_token" /\ last.wasRevoked) => ~last.ok

(***************************************************************************)
(* The TOTP second factor (TOTPService).                                   *)
(*                                                                         *)
(* A code is a triple: << "totp", secret, counter >> is the 6-digit code   *)
(* pyotp derives from a secret and a time counter, << "text", s, 0 >> is   *)
(* any other text a caller types.                                          *)
(***************************************************************************)
Secrets == {"SECRETA", "SECRETB"}

\* what secrets.token_hex(4).upper() can return
BackupTexts == {"AAAA1111", "BBBB2222"}

\* str.upper().strip()
UpperStrip(text) ==
    CASE text = "aaaa1111" -> "AAAA1111"
      [] text = " AAAA1111 " -> "AAAA1111"
      [] text = "bbbb2222" -> "BBBB2222"
      [] OTHER -> text

TextCode(text) == << "text", text, 0 >>

\* pyotp.TOTP(secret).at(for_time, counter_offset)
TotpAt(secret, counter) == << "totp", secret, counter >>

\* pyotp's timecode
TimeCode(t) == t \div TOTP_INTERVAL

\* EncryptionManager.encrypt / decrypt
Encrypt(data) == << "fernet", data >>
Decrypt(token) == token[2]

\* TOTPService.generate_secret_key
GenerateSecretKey == Secrets

\* TOTPService.generate_backup_codes: the lists it can return
GenerateBackupCodes ==
    { [ i \in 1..BackupCount |-> TextCode(f[i]) ] :
        f \in [ 1..BackupCount -> BackupTexts ] }

\* TOTPService.verify_totp_code
VerifyTotpCode(secret_key, code, t) ==
    \E i \in (0 - TOTP_WINDOW)..TOTP_WINDOW :
        code = TotpAt(secret_key, TimeCode(t) + i)

\* TOTPService.verify_backup_code: << accepted, updated list >>
VerifyBackupCode(backup_codes, code) ==
    LET code_upper == << code[1], UpperStrip(code[2]), code[3] >>
    IN  IF \E i \in 1..Len(backup_codes) : backup_codes[i] = code_upper
        THEN << TRUE, SelectSeq(backup_codes, LAMBDA c : c # code_upper) >>
        ELSE << FALSE, backup_codes >>

\* TOTPService.is_2fa_enabled
Is2FAEnabled(tf, u) == tf[u] # None /\ tf[u][1].is_enabled

\* setup_2fa leaving is_enabled of an existing row as it is
Setup2FAKeepEnabled(tf, u, secret_key, backup_codes) ==
    IF tf[u] # None
    THEN [ tf EXCEPT ![u] = Some([ tf[u][1] EXCEPT
                                     !.secret_key = Encrypt(secret_key),
                                     !.backup_codes = Encrypt(backup_codes) ]) ]
    ELSE [ tf EXCEPT ![u] = Some([ secret_key   |-> Encrypt(secret_key),
                                   backup_codes |-> Encrypt(backup_codes),
                                   is_enabled   |-> FALSE,
                                   last_used_at |-> None ]) ]

\* TOTPService.setup_2fa with the secret and the codes it drew
Setup2FA(tf, u, secret_key, backup_codes) ==
    IF tf[u] # None
    THEN [ tf EXCEPT ![u] = Some([ tf[u][1] EXCEPT
                                     !.secret_key = Encrypt(secret_key),
                                     !.backup_codes = Encrypt(backup_codes),
                                     !.is_enabled = FALSE ]) ]
    ELSE [ tf EXCEPT ![u] = Some([ secret_key   |-> Encrypt(secret_key),
                                   backup_codes |-> Encrypt(backup_codes),
                                   is_enabled   |-> FALSE,
                                   last_used_at |-> None ]) ]

Verify2FASetupAnyCode(tf, u, code, t) ==
    IF tf[u] = None
    THEN [ tf |-> tf, outcome |-> "NotFoundError" ]
    ELSE [ tf |-> [ tf EXCEPT ![u] = Some([ tf[u][1] EXCEPT !.is_enabled = TRUE ]) ],
           outcome |-> "true" ]

\* TOTPService.verify_2fa_setup
Verify2FASetup(tf, u, code, t) ==
    IF tf[u] = None
    THEN [ tf |-> tf, outcome |-> "NotFoundError" ]
    ELSE IF VerifyTotpCode(Decrypt(tf[u][1].secret_key), code, t)
    THEN [ tf |-> [ tf EXCEPT ![u] = Some([ tf[u][1] EXCEPT !.is_enabled = TRUE ]) ],
           outcome |-> "true" ]
    ELSE [ tf |-> tf, outcome |-> "false" ]

\* disable_2fa without the test of the code
Disable2FAAnyCode(tf, u, code, t) ==
    IF ~Is2FAEnabled(tf, u)
    THEN [ tf |-> tf, outcome |-> "false" ]
    ELSE [ tf |-> [ tf EXCEPT ![u] = Some([ tf[u][1] EXCEPT !.is_enabled = FALSE ]) ],
           outcome |-> "true" ]

\* TOTPService.disable_2fa
Disable2FA(tf, u, code, t) ==
    IF ~Is2FAEnabled(tf, u)
    THEN [ tf |-> tf, outcome |-> "false" ]
    ELSE LET row == tf[u][1]
             is_valid_totp == VerifyTotpCode(Decrypt(row.secret_key), code, t)
             is_valid_backup == VerifyBackupCode(Decrypt(row.backup_codes), code)[1]
         IN  IF is_valid_totp \/ is_valid_backup
             THEN [ tf |-> [ tf EXCEPT ![u] = Some([ row EXCEPT !.is_enabled = FALSE ]) ],
                    outcome |-> "true" ]
             ELSE [ tf |-> tf, outcome |-> "false" ]

\* verify_2fa_login keeping a record of use: a TOTP code of a time step at
\* or before the step of last_used_at is refused
Verify2FALoginOnce(tf, u, code, t) ==
    IF ~Is2FAEnabled(tf, u)
    THEN [ tf |-> tf, outcome |-> "false" ]
    ELSE LET row == tf[u][1]
             backup == VerifyBackupCode(Decrypt(row.backup_codes), code)
             used == /\ row.last_used_at # None
                     /\ code[3] <= TimeCode(row.last_used_at[1])
         IN  IF VerifyTotpCode(Decrypt(row.secret_key), code, t) /\ ~used
             THEN [ tf |-> [ tf EXCEPT ![u] = Some([ row EXCEPT !.last_used_at = Some(t) ]) ],
                    outcome |-> "true" ]
             ELSE IF backup[1]
             THEN [ tf |-> tf, outcome |-> "UnboundLocalError" ]
             ELSE [ tf |-> tf, outcome |-> "false" ]

\* TOTPService.verify_2fa_login.  The function imports datetime inside the
\* TOTP branch (line 198), which makes the name local to the whole function:
\* on the backup-code branch line 208 reads it unbound and raises
\* UnboundLocalError before the commit; get_db rolls the session back.
Verify2FALogin(tf, u, code, t) ==
    IF ~Is2FAEnabled(tf, u)
    THEN [ tf |-> tf, outcome |-> "false" ]
    ELSE LET row == tf[u][1]
             backup == VerifyBackupCode(Decrypt(row.backup_codes), code)
         IN  IF VerifyTotpCode(Decrypt(row.secret_key), code, t)
             THEN [ tf |-> [ tf EXCEPT ![u] = Some([ row EXCEPT !.last_used_at = Some(t) ]) ],
                    outcome |-> "true" ]
             ELSE IF backup[1]
             THEN [ tf |-> tf, outcome |-> "UnboundLocalError" ]
             ELSE [ tf |-> tf, outcome |-> "false" ]

\* regenerate_backup_codes taking a stored backup code as authorisation too
RegenerateBackupCodesLax(tf, u, code, new_backup_codes, t) ==
    IF ~Is2FAEnabled(tf, u)
    THEN [ tf |-> tf, outcome |-> "None" ]
    ELSE IF /\ ~VerifyTotpCode(Decrypt(tf[u][1].secret_key), code, t)
            /\ ~VerifyBackupCode(Decrypt(tf[u][1].backup_codes), code)[1]
    THEN [ tf |-> tf, outcome |-> "None" ]
    ELSE [ tf |-> [ tf EXCEPT ![u] = Some([ tf[u][1] EXCEPT
                        !.backup_codes = Encrypt(new_backup_codes) ]) ],
           outcome |-> "codes" ]

\* TOTPService.regenerate_backup_codes with the codes it drew
RegenerateBackupCodes(tf, u, code, new_backup_codes, t) ==
    IF ~Is2FAEnabled(tf, u)
    THEN [ tf |-> tf, outcome |-> "None" ]
    ELSE IF ~VerifyTotpCode(Decrypt(tf[u][1].secret_key), code, t)
    THEN [ tf |-> tf, outcome |-> "None" ]
    ELSE [ tf |-> [ tf EXCEPT ![u] = Some([ tf[u][1] EXCEPT
                        !.backup_codes = Encrypt(new_backup_codes) ]) ],
           outcome |-> "codes" ]

(***************************************************************************)
(* SpecTotp: the TOTP operations of one principal over a few time steps.   *)
(***************************************************************************)
othersTotp == << users, tokenVars, mismatches, magicVars, oauthVars >>

\* the ids callers pass: a principal and an id with no "users" row
TotpCallers == {"u1", "u9"}

CodeTexts == {"AAAA1111", "aaaa1111", " AAAA1111 ", "ZZZZ9999"}

\* the codes callers present at time t
CodeInputs(t) ==
    { TotpAt(s, c) : s \in Secrets, c \in (TimeCode(t) - 2)..(TimeCode(t) + 2) }
        \cup { TextCode(x) : x \in CodeTexts }

\* the presented code is in the stored backup list and is no valid TOTP code
BackupMatch(tf, u, code, t) ==
    /\ Is2FAEnabled(tf, u)
    /\ ~VerifyTotpCode(Decrypt(tf[u][1].secret_key), code, t)
    /\ VerifyBackupCode(Decrypt(tf[u][1].backup_codes), code)[1]

Setup2FACall(u) ==
    /\ IF u \in DOMAIN users
       THEN \E secret_key \in GenerateSecretKey, backup_codes \in GenerateBackupCodes :
                /\ two_factor' = Setup2FA(two_factor, u, secret_key, backup_codes)
                /\ last' = [ op |-> "setup_2fa", user |-> u, outcome |-> "ok",
                             wasEnabled |-> Is2FAEnabled(two_factor, u),
                             secret_key |-> Some(secret_key),
                             backup_codes |-> Some(backup_codes) ]
       ELSE /\ two_factor' = two_factor
            /\ last' = [ op |-> "setup_2fa", user |-> u,
                         outcome |-> "NotFoundError", wasEnabled |-> FALSE,
                         secret_key |-> None, backup_codes |-> None ]
    /\ needsSetup' = needsSetup \ {u}
    /\ UNCHANGED << clockVars, othersTotp >>

Verify2FASetupCall(u, code) ==
    LET r == Verify2FASetup(two_factor, u, code, now)
    IN  /\ u \in DOMAIN users
        /\ two_factor' = r.tf
        /\ last' = [ op |-> "verify_2fa_setup", user |-> u, code |-> code,
                     outcome |-> r.outcome ]
        /\ UNCHANGED << clockVars, needsSetup, othersTotp >>

Disable2FACall(u, code) ==
    LET r == Disable2FA(two_factor, u, code, now)
    IN  /\ u \in DOMAIN users
        /\ two_factor' = r.tf
        /\ last' = [ op |-> "disable_2fa", user |-> u, code |-> code,
                     outcome |-> r.outcome ]
        /\ needsSetup' = IF r.outcome = "true" THEN needsSetup \cup {u}
                         ELSE needsSetup
        /\ UNCHANGED << clockVars, othersTotp >>

Verify2FALoginCall(u, code) ==
    LET r == Verify2FALogin(two_factor, u, code, now)
    IN  /\ u \in DOMAIN users
        /\ two_factor' = r.tf
        /\ last' = [ op |-> "verify_2fa_login", user |-> u, code |-> code,
                     outcome |-> r.outcome,
                     backupMatch |-> BackupMatch(two_factor, u, code, now) ]
        /\ UNCHANGED << clockVars, needsSetup, othersTotp >>

RegenerateBackupCodesCall(u, code) ==
    /\ u \in DOMAIN users
    /\ \E new_backup_codes \in
            IF RegenerateBackupCodes(two_factor, u, code,
                     CHOOSE c \in GenerateBackupCodes : TRUE, now).outcome = "codes"
            THEN GenerateBackupCodes
            ELSE { CHOOSE c \in GenerateBackupCodes : TRUE } :
          LET r == RegenerateBackupCodes(two_factor, u, code, new_backup_codes, now)
          IN  /\ two_factor' = r.tf
              /\ last' = [ op |-> "regenerate_backup_codes", user |-> u,
                           code |-> code, outcome |-> r.outcome,
                           codes |-> IF r.outcome = "codes"
                                     THEN Some(new_backup_codes) ELSE None ]
    /\ UNCHANGED << clockVars, needsSetup, othersTotp >>

TotpTick ==
    /\ Tick(TOTP_INTERVAL)
    /\ UNCHANGED << totpVars, othersTotp, last >>

InitTotp ==
    /\ now = TOTP_INTERVAL
    /\ ticks = 0
    /\ InitUsers
    /\ InitTokens
    /\ InitTwoFactor
    /\ InitMagic
    /\ InitMismatches
    /\ InitLast

NextTotp ==
    \/ \E u \in TotpCallers : Setup2FACall(u)
    \/ \E u \in TotpCallers, code \in CodeInputs(now) : Verify2FASetupCall(u, code)
    \/ \E u \in TotpCallers, code \in CodeInputs(now) : Disable2FACall(u, code)
    \/ \E u \in TotpCallers, code \in CodeInputs(now) : Verify2FALoginCall(u, code)
    \/ \E u \in TotpCallers, code \in CodeInputs(now) : RegenerateBackupCodesCall(u, code)
    \/ TotpTick

SpecTotp == InitTotp /\ [][NextTotp]_vars

C6_SetupVerification ==
    [][ /\ ( /\ last'.op = "verify_2fa_setup"
             /\ now' = now
             /\ last' # last
             /\ two_factor[last'.user] # None
             /\ ~VerifyTotpCode(Decrypt(two_factor[last'.user][1].secret_key),
                                last'.code, now) )
           => (last'.outcome = "false" /\ two_factor' = two_factor)
        /\ \A u \in UserIds :
             (Is2FAEnabled(two_factor', u) /\ ~Is2FAEnabled(two_factor, u))
                => /\ last'.op = "verify_2fa_setup"
                   /\ last'.user = u
                   /\ last'.outcome = "true"
                   /\ two_factor[u] # None
                   /\ VerifyTotpCode(Decrypt(two_factor[u][1].secret_key),
                                     last'.code, now)
                   /\ two_factor'[u][1].secret_key = two_factor[u][1].secret_key
      ]_vars

C6_Witness ==
    /\ last.op = "verify_2fa_setup"
    /\ last.outcome = "false"
    /\ last.code = TotpAt(Decrypt(two_factor[last.user][1].secret_key),
                          TimeCode(now) - 2)
    /\ ~two_factor[last.user][1].is_enabled

(***************************************************************************)
(* The login endpoints (api/v1/endpoints/auth.py).                         *)
(***************************************************************************)
\* POST /login.  JSONResponse is not imported by the module, so the branch
\* for an enabled second factor raises NameError at line 51; the handler's
\* "except Exception" turns it into HTTP 500 "Login failed".
Login(us, tokens, tf, email, password, t) ==
    LET a == AuthenticateUser(us, email, password, t)
    IN  IF ~a.ok
        THEN [ users |-> a.users, tokens |-> tokens,
               response |-> [ status |-> 401, kind |-> "error",
                              detail |-> a.error ] ]
        ELSE IF Is2FAEnabled(tf, a.user[1])
        THEN [ users |-> a.users, tokens |-> tokens,
               response |-> [ status |-> 500, kind |-> "error",
                              detail |-> "Login failed" ] ]
        ELSE LET c == CreateTokens(tokens, a.users, a.user[1], t)
             IN  [ users |-> a.users, tokens |-> c.tokens,
                   response |-> [ status |-> 200, kind |-> "tokens",
                                  body |-> c.response ] ]

\* POST /login/2fa.  Only AuthenticationError is handled; the
\* UnboundLocalError of verify_2fa_login surfaces as HTTP 500.
LoginWith2FA(us, tokens, tf, email, password, totp_code, t) ==
    LET a == AuthenticateUser(us, email, password, t)
    IN  IF ~a.ok
        THEN [ users |-> a.users, tokens |-> tokens, tf |-> tf,
               response |-> [ status |-> 401, kind |-> "error",
                              detail |-> a.error ] ]
        ELSE LET v == Verify2FALogin(tf, a.user[1], totp_code, t)
             IN  IF v.outcome = "false"
                 THEN [ users |-> a.users, tokens |-> tokens, tf |-> v.tf,
                        response |-> [ status |-> 401, kind |-> "error",
                                       detail |-> "Invalid 2FA code" ] ]
                 ELSE IF v.outcome = "UnboundLocalError"
                 THEN [ users |-> a.users, tokens |-> tokens, tf |-> v.tf,
                        response |-> [ status |-> 500, kind |-> "error",
                                       detail |-> "Internal Server Error" ] ]
                 ELSE LET c == CreateTokens(tokens, a.users, a.user[1], t)
                      IN  [ users |-> a.users, tokens |-> c.tokens, tf |-> v.tf,
                            response |-> [ status |-> 200, kind |-> "tokens",
                                           body |-> c.response ] ]

(***************************************************************************)
(* SpecLogin: the two login endpoints, with the 2FA setup that leads to    *)
(* an enabled second factor.                                               *)
(***************************************************************************)
othersLogin == << magicVars, oauthVars >>

LoginEmails == {"a@x.com", "nobody@x.com"}

LoginCodes(t) ==
    { TotpAt(s, TimeCode(t)) : s \in Secrets }
        \cup { TextCode("AAAA1111"), TextCode("ZZZZ9999") }

\* the refresh tokens a response hands out
Handed(response) ==
    IF response.kind = "tokens" THEN {response.body.refresh_token} ELSE {}

LoginCall(email, password) ==
    LET r == Login(users, auth_tokens, two_factor, email, password, now)
        a == AuthenticateUser(users, email, password, now)
    IN  /\ r.response.kind = "tokens" => BagCardinality(auth_tokens) < MaxTokens
        /\ users' = r.users
        /\ mismatches' = NoteOutcome(a, password, now)
        /\ auth_tokens' = r.tokens
        /\ issued' = issued \cup Handed(r.response)
        /\ last' = [ op |-> "login", email |-> email,
                     authenticated |-> a.ok,
                     had2FA |-> a.ok /\ Is2FAEnabled(two_factor, a.user[1]),
                     newRows |-> BagCardinality(r.tokens)
                                    - BagCardinality(auth_tokens),
                     response |-> r.response ]
        /\ UNCHANGED << clockVars, revokedRaw, loggedOut, totpVars, othersLogin >>

LoginWith2FACall(email, password, totp_code) ==
    LET r == LoginWith2FA(users, auth_tokens, two_factor, email, password,
                          totp_code, now)
        a == AuthenticateUser(users, email, password, now)
    IN  /\ r.response.kind = "tokens" => BagCardinality(auth_tokens) < MaxTokens
        /\ users' = r.users
        /\ mismatches' = NoteOutcome(a, password, now)
        /\ auth_tokens' = r.tokens
        /\ issued' = issued \cup Handed(r.response)
        /\ two_factor' = r.tf
        /\ last' = [ op |-> "login_with_2fa", email |-> email,
                     authenticated |-> a.ok,
                     had2FA |-> a.ok /\ Is2FAEnabled(two_factor, a.user[1]),
                     code |-> totp_code,
                     newRows |-> BagCardinality(r.tokens)
                                    - BagCardinality(auth_tokens),
                     response |-> r.response ]
        /\ UNCHANGED << clockVars, revokedRaw, loggedOut, needsSetup,
                        othersLogin >>

InitLogin ==
    /\ now = TOTP_INTERVAL
    /\ ticks = 0
    /\ InitUsers
    /\ InitTokens
    /\ InitTwoFactor
    /\ InitMagic
    /\ InitMismatches
    /\ InitLast

NextLogin ==
    \/ \E email \in LoginEmails, password \in Passwords :
          LoginCall(email, password)
    \/ \E email \in LoginEmails, password \in Passwords,
          code \in LoginCodes(now) : LoginWith2FACall(email, password, code)
    \/ Setup2FACall("u1")
    \/ \E code \in LoginCodes(now) : Verify2FASetupCall("u1", code)

SpecLogin == InitLogin /\ [][NextLogin]_vars

\* C8: a password login that authenticates a principal with an enabled
\* second factor answers "2FA required" and stores no token; for a principal
\* without an enabled second factor it answers with a token pair whose
\* expires_in is the access-token lifetime in seconds.
C8_LoginResponse ==
    (last.op = "login" /\ last.authenticated) =>
        IF last.had2FA
        THEN last.response.kind = "requires_2fa" /\ last.newRows = 0
        ELSE /\ last.response.kind = "tokens"
             /\ last.response.body.expires_in = ACCESS_TOKEN_EXPIRE_MINUTES * 60
             /\ last.response.body.expires_in = 1800

(***************************************************************************)
(* The Redis cache (RedisCache).  Every operation can hit a Redis error,   *)
(* which the wrapper logs and swallows: "fault" says whether it did.       *)
(***************************************************************************)
\* RedisCache.get: None on a miss, on an expired key and on an error
CacheGet(c, key, fault, t) ==
    IF fault THEN None
    ELSE IF key \in DOMAIN c /\ c[key].expires_at > t
    THEN Some(c[key].value)
    ELSE None

\* RedisCache.set: SETEX key expire value; the result is ignored by callers
CacheSet(c, key, value, expire, fault, t) ==
    IF fault THEN c
    ELSE [ k \in DOMAIN c \cup {key} |->
             IF k = key THEN [ value |-> value, expires_at |-> t + expire ]
             ELSE c[k] ]

\* RedisCache.delete: the result is ignored by callers
CacheDelete(c, key, fault) ==
    IF fault THEN c
    ELSE [ k \in DOMAIN c \ {key} |-> c[k] ]

(***************************************************************************)
(* Passwordless sign-in (PasswordlessService).                             *)
(***************************************************************************)
Ips == {"ip1"}

\* security.generate_secure_token: the n-th value drawn, never repeated
TokenNames == << "tokA", "tokB", "tokC", "tokD" >>
GenerateSecureToken(n) == TokenNames[n + 1]

\* f"magic_link_rate:{ip_address}:{email}" and f"{kind}:{token}"
RateKey(ip, email) == << "magic_link_rate", ip, email >>
TokenKey(kind, token) == << kind, token, "" >>

\* the keys of one kind of ephemeral token that are stored in the cache
TokenKeys(c, kind) == { k \in DOMAIN c : k[1] = kind }

\* who may put each cache operation of a call in error
NoFaults == [ get |-> FALSE, set_rate |-> FALSE, set_token |-> FALSE ]
FaultChoices ==
    { [ NoFaults EXCEPT ![op] = b ] :
        op \in {"get", "set_rate", "set_token"}, b \in BOOLEAN }

MagicLinkRecipientAnyone(us, email) == Some("u1")

\* the account lookup of request_magic_link (lines 40-50): the principal
\* the link is for, if the email has an active account
MagicLinkRecipient(us, email) ==
    LET found == UserByEmail(us, email)
    IN  IF found = None THEN None
        ELSE IF ~us[found[1]].is_active THEN None
        ELSE found

\* the rate-limit reading of request_magic_link (line 31)
CurrentRequests(c, email, ip, faults, t) ==
    LET got == CacheGet(c, RateKey(ip, email), faults.get, t)
    IN  IF got = None THEN 0 ELSE got[1]

\* PasswordlessService.request_magic_link.  The module does not import
\* settings, so building the link (line 67) raises NameError after the
\* token has been stored; like the rate-limit error it is caught at line
\* 109 and replaced by ValidationError("Failed to send magic link").
RequestMagicLink(c, us, email, ip, token, faults, t) ==
    LET current_requests == CurrentRequests(c, email, ip, faults, t)
        c1 == CacheSet(c, RateKey(ip, email), current_requests + 1,
                       RATE_LIMIT_WINDOW, faults.set_rate, t)
        user == MagicLinkRecipient(us, email)
    IN  IF current_requests >= MAX_REQUESTS_PER_WINDOW
        THEN [ cache |-> c, sent |-> {}, drew |-> FALSE,
               outcome |-> "ValidationError",
               message |-> "Failed to send magic link" ]
        ELSE IF user = None
        THEN [ cache |-> c1, sent |-> {}, drew |-> FALSE,
               outcome |-> "true", message |-> "" ]
        ELSE [ cache |-> CacheSet(c1, TokenKey("magic_link", token),
                                  [ user_id |-> user[1], email |-> email,
                                    ip_address |-> ip, created_at |-> t ],
                                  TOKEN_EXPIRY_MINUTES * 60,
                                  faults.set_token, t),
               sent |-> {}, drew |-> TRUE,
               outcome |-> "ValidationError",
               message |-> "Failed to send magic link" ]

\* POST /magic-link: what the caller sees
RequestMagicLinkResponse(r) ==
    IF r.outcome = "true"
    THEN [ status |-> 200, message |-> "Magic link sent to email" ]
    ELSE [ status |-> 429, message |-> r.message ]

\* is there an active account with this email
HasActiveAccount(us, email) ==
    \E u \in DOMAIN us : us[u].email = email /\ us[u].is_active

\* the table without the account of this email
WithoutAccount(us, email) ==
    [ u \in DOMAIN us |->
        IF us[u].email = email THEN [ us[u] EXCEPT !.email = "" ] ELSE us[u] ]


\* PasswordlessService.send_email_verification; like request_magic_link it
\* stops at the undefined name settings (line 172), after the token is
\* stored and the row committed, and its handler returns False.
SendEmailVerification(c, us, user_id, token, fault, t) ==
    IF user_id \notin DOMAIN us
    THEN [ cache |-> c, users |-> us, drew |-> FALSE, outcome |-> "false" ]
    ELSE IF us[user_id].is_email_verified
    THEN [ cache |-> c, users |-> us, drew |-> FALSE, outcome |-> "true" ]
    ELSE [ cache |-> CacheSet(c, TokenKey("email_verify", token),
                              [ user_id |-> user_id,
                                email |-> us[user_id].email,
                                created_at |-> t ],
                              24 * 60 * 60, fault, t),
           users |-> [ us EXCEPT ![user_id].email_verification_token =
                                     Some(token) ],
           drew |-> TRUE, outcome |-> "false" ]

\* PasswordlessService.send_password_reset (NameError at line 280)
SendPasswordReset(c, us, email, token, fault, t) ==
    LET found == UserByEmail(us, email)
    IN  IF found = None
        THEN [ cache |-> c, users |-> us, drew |-> FALSE, outcome |-> "true" ]
        ELSE [ cache |-> CacheSet(c, TokenKey("password_reset", token),
                                  [ user_id |-> found[1], email |-> email,
                                    created_at |-> t ],
                                  60 * 60, fault, t),
               users |-> [ us EXCEPT
                             ![found[1]].password_reset_token = Some(token),
                             ![found[1]].password_reset_expires =
                                 Some(t + 60 * 60) ],
               drew |-> TRUE, outcome |-> "false" ]

\* the database part of a redemption, between its cache.get and its
\* cache.delete: verify_magic_link lines 130-132, verify_email lines
\* 226-238, verify_password_reset lines 337-346
RedeemDb(us, kind, user_id, new_password) ==
    IF user_id \notin DOMAIN us
    THEN [ users |-> us, ok |-> FALSE ]
    ELSE CASE kind = "magic_link" ->
                [ users |-> us, ok |-> us[user_id].is_active ]
           [] kind = "email_verify" ->
                [ users |-> [ us EXCEPT
                                ![user_id].is_email_verified = TRUE,
                                ![user_id].email_verification_token = None ],
                  ok |-> TRUE ]
           [] kind = "password_reset" ->
                [ users |-> [ us EXCEPT
                                ![user_id].hashed_password =
                                    Some(HashPassword(new_password)),
                                ![user_id].password_reset_token = None,
                                ![user_id].password_reset_expires = None ],
                  ok |-> TRUE ]

\* what each redemption raises when it fails
RedeemError(kind) ==
    CASE kind = "magic_link" -> "AuthenticationError"
      [] kind = "email_verify" -> "ValidationError"
      [] kind = "password_reset" -> "ValidationError"

(***************************************************************************)
(* SpecMagic: magic-link requests against an active account (a@x.com), a   *)
(* deactivated one (b@x.com) and no account, with the rate-limit window.   *)
(***************************************************************************)
othersMagic == << tokenVars, totpVars, mismatches, proc, returned, oauthVars >>

\* the instants at which requests arrive
MagicInstants == << 0, RATE_LIMIT_WINDOW >>

RequestMagicLinkCall(email, ip, faults) ==
    LET token == GenerateSecureToken(tokenSeq)
        r == RequestMagicLink(cache, users, email, ip, token, faults, now)
        shadow == RequestMagicLink(cache, WithoutAccount(users, email), email,
                                   ip, token, faults, now)
    IN  /\ r.drew => tokenSeq < MaxIssued
        /\ cache' = r.cache
        /\ outbox' = outbox \cup r.sent
        /\ tokenSeq' = IF r.drew THEN tokenSeq + 1 ELSE tokenSeq
        /\ last' = [ op |-> "request_magic_link", email |-> email, ip |-> ip,
                     activeAccount |-> HasActiveAccount(users, email),
                     rateLimited |->
                         CurrentRequests(cache, email, ip, faults, now)
                             >= MAX_REQUESTS_PER_WINDOW,
                     outcome |-> r.outcome,
                     response |-> RequestMagicLinkResponse(r),
                     responseIfMissing |-> RequestMagicLinkResponse(shadow),
                     tokenWritten |-> TokenKeys(r.cache, "magic_link")
                                         # TokenKeys(cache, "magic_link"),
                     notified |-> r.sent # {} ]
        /\ UNCHANGED << clockVars, users, othersMagic >>

MagicTick ==
    /\ ticks + 1 < Len(MagicInstants)
    /\ ticks' = ticks + 1
    /\ now' = MagicInstants[ticks + 2]
    /\ UNCHANGED << users, cache, outbox, tokenSeq, last, othersMagic >>

InitMagicSpec ==
    /\ now = MagicInstants[1]
    /\ ticks = 0
    /\ users = [ InitialUsers EXCEPT !["u2"].is_active = FALSE ]
    /\ InitTokens
    /\ InitTwoFactor
    /\ InitMagic
    /\ InitMismatches
    /\ InitLast

NextMagic ==
    \/ \E email \in Emails, ip \in Ips, faults \in FaultChoices :
          RequestMagicLinkCall(email, ip, faults)
    \/ MagicTick

SpecMagic == InitMagicSpec /\ [][NextMagic]_vars

\* C9 as stated: request_magic_link for an email with no account or an
\* inactive account returns success, writes no magic-link token and triggers
\* no notification; a token is written or a notification triggered only for
\* an email with an active account.
C9_AsStated ==
    last.op = "request_magic_link" =>
        /\ ~last.activeAccount =>
              (last.outcome = "true" /\ ~last.tokenWritten /\ ~last.notified)
        /\ (last.tokenWritten \/ last.notified) => last.activeAccount

\* C9 amended: request_magic_link for an email with no account or an
\* inactive account writes no magic-link token and triggers no notification,
\* and it returns success unless the (ip, email) pair has used up its
\* requests of the window, in which case it fails; a token is written or a
\* notification triggered only for an email with an active account.
C9_NoAccountNoToken ==
    last.op = "request_magic_link" =>
        /\ ~last.activeAccount =>
              /\ ~last.tokenWritten /\ ~last.notified
              /\ last.outcome = "true" <=> ~last.rateLimited
        /\ (last.tokenWritten \/ last.notified) => last.activeAccount

C9_Witness ==
    /\ last.op = "request_magic_link"
    /\ last.email = "nobody@x.com"
    /\ ~last.activeAccount /\ ~last.rateLimited
    /\ last.outcome = "true"
    /\ TokenKeys(cache, "magic_link") # {}

\* C10: what the caller of request_magic_link sees is what the caller would
\* have seen from the same cache state had the email had no account.
C10_AntiEnumeration ==
    last.op = "request_magic_link" =>
        last.response = last.responseIfMissing

(***************************************************************************)
(* SpecRedeem: issuing ephemeral tokens and redeeming them from two        *)
(* workers.  A redemption is three steps, one per await: the cache.get,    *)
(* the database work, and the cache.delete after which it returns.         *)
(***************************************************************************)
othersRedeem == << tokenVars, totpVars, mismatches, outbox, oauthVars >>

Kinds == {"magic_link", "email_verify", "password_reset"}

\* the tokens a caller can present: those drawn so far and a made-up one
Presentable == { GenerateSecureToken(n) : n \in 0..(tokenSeq - 1) } \cup {"bogus"}

IssueMagicLink(fault) ==
    LET r == RequestMagicLink(cache, users, "a@x.com", "ip1",
                              GenerateSecureToken(tokenSeq),
                              [ NoFaults EXCEPT !.set_token = fault ], now)
    IN  /\ tokenSeq < MaxIssued
        /\ r.drew
        /\ cache' = r.cache
        /\ tokenSeq' = tokenSeq + 1
        /\ last' = [ op |-> "request_magic_link", outcome |-> r.outcome ]
        /\ UNCHANGED << clockVars, users, proc, returned, othersRedeem >>

SendEmailVerificationCall(user_id, fault) ==
    LET r == SendEmailVerification(cache, users, user_id,
                                   GenerateSecureToken(tokenSeq), fault, now)
    IN  /\ tokenSeq < MaxIssued
        /\ cache' = r.cache
        /\ users' = r.users
        /\ tokenSeq' = IF r.drew THEN tokenSeq + 1 ELSE tokenSeq
        /\ last' = [ op |-> "send_email_verification", outcome |-> r.outcome ]
        /\ UNCHANGED << clockVars, proc, returned, othersRedeem >>

SendPasswordResetCall(email, fault) ==
    LET r == SendPasswordReset(cache, users, email,
                               GenerateSecureToken(tokenSeq), fault, now)
    IN  /\ tokenSeq < MaxIssued
        /\ cache' = r.cache
        /\ users' = r.users
        /\ tokenSeq' = IF r.drew THEN tokenSeq + 1 ELSE tokenSeq
        /\ last' = [ op |-> "send_password_reset", outcome |-> r.outcome ]
        /\ UNCHANGED << clockVars, proc, returned, othersRedeem >>

\* how a redemption by worker w ends
Finished(w, kind, token, ok, startedAfter) ==
    [ op |-> "verify", kind |-> kind, worker |-> w, token |-> token,
      ok |-> ok, error |-> IF ok THEN "" ELSE RedeemError(kind),
      startedAfter |-> startedAfter,
      priorSuccess |-> << kind, token >> \in returned ]

\* first step: token_data = await cache.get(token_key)
RedeemGet(w, kind, token, fault) ==
    LET token_data == CacheGet(cache, TokenKey(kind, token), fault, now)
        startedAfter == << kind, token >> \in returned
    IN  /\ proc[w].pc = "idle"
        /\ IF token_data = None
           THEN /\ last' = Finished(w, kind, token, FALSE, startedAfter)
                /\ proc' = proc
           ELSE /\ proc' = [ proc EXCEPT ![w] =
                               [ pc |-> "db", kind |-> kind, token |-> token,
                                 user_id |-> token_data[1].user_id,
                                 startedAfter |-> startedAfter ] ]
                /\ last' = last
        /\ UNCHANGED << clockVars, users, cache, tokenSeq, returned,
                        othersRedeem >>

\* second step: the database work
RedeemDbStep(w) ==
    /\ proc[w].pc = "db"
    /\ LET p == proc[w]
           r == RedeemDb(users, p.kind, p.user_id, "good")
       IN  /\ users' = r.users
           /\ IF r.ok
              THEN /\ proc' = [ proc EXCEPT ![w].pc = "delete" ]
                   /\ last' = last
              ELSE /\ proc' = [ proc EXCEPT ![w] = [ pc |-> "idle" ] ]
                   /\ last' = Finished(w, p.kind, p.token, FALSE,
                                       p.startedAfter)
    /\ UNCHANGED << clockVars, cache, tokenSeq, returned, othersRedeem >>

\* third step: await cache.delete(token_key), then return
RedeemDelete(w, fault) ==
    /\ proc[w].pc = "delete"
    /\ LET p == proc[w]
       IN  /\ cache' = CacheDelete(cache, TokenKey(p.kind, p.token), fault)
           /\ returned' = returned \cup { << p.kind, p.token >> }
           /\ last' = Finished(w, p.kind, p.token, TRUE, p.startedAfter)
    /\ proc' = [ proc EXCEPT ![w] = [ pc |-> "idle" ] ]
    /\ UNCHANGED << clockVars, users, tokenSeq, othersRedeem >>

InitRedeem ==
    /\ now = 0
    /\ ticks = 0
    /\ InitUsers
    /\ InitTokens
    /\ InitTwoFactor
    /\ InitMagic
    /\ InitMismatches
    /\ InitLast

NextRedeem ==
    \/ \E fault \in BOOLEAN : IssueMagicLink(fault)
    \/ \E fault \in BOOLEAN : SendEmailVerificationCall("u1", fault)
    \/ \E fault \in BOOLEAN : SendPasswordResetCall("a@x.com", fault)
    \/ \E w \in Workers, kind \in Kinds, token \in Presentable,
          fault \in BOOLEAN : RedeemGet(w, kind, token, fault)
    \/ \E w \in Workers : RedeemDbStep(w)
    \/ \E w \in Workers, fault \in BOOLEAN : RedeemDelete(w, fault)

SpecRedeem == InitRedeem /\ [][NextRedeem]_vars

\* C3: a redemption that was under way when another redemption of the same
\* token returned successfully does not succeed itself.
C3_ConcurrentRedemption ==
    (last.op = "verify" /\ last.priorSuccess /\ ~last.startedAfter)
        => ~last.ok

\* C4: once a verify_magic_link call on a token has returned a principal, a
\* verify_magic_link call started afterwards with that token fails with
\* AuthenticationError.
C4_SingleUse ==
    (last.op = "verify" /\ last.kind = "magic_link" /\ last.startedAfter)
        => (~last.ok /\ last.error = "AuthenticationError")

(***************************************************************************)
(* OAuth2 federation (OAuth2Service).                                      *)
(***************************************************************************)
\* the keys of OAuth2Service.providers
Providers == {"google", "github", "microsoft"}

\* str.lower()
Lower(name) == IF name = "Google" THEN "google" ELSE name

\* OAuth2Service.get_provider: does it return a provider for this name
GetProviderAccepts(provider_name) == Lower(provider_name) \in Providers

\* table "tenants"
Tenants == [ t \in {"t1", "t2"} |-> [ is_active |-> t = "t1" ] ]

\* uuid4 primary keys of users created during the run
NewUserIds == << "n1", "n2", "n3" >>
NextUserId(us) == NewUserIds[Cardinality(DOMAIN us \ UserIds) + 1]

\* the query of lines 270-275: rows whose provider column equals the name as
\* the caller wrote it
AccountsOf(accounts, provider_name, provider_user_id) ==
    Where(accounts, LAMBDA r : /\ r.provider = provider_name
                               /\ r.provider_user_id = provider_user_id)

NewAccount(provider_name, provider_user_id, email, access_token, user_id) ==
    [ provider         |-> provider_name,
      provider_user_id |-> provider_user_id,
      provider_email   |-> email,
      access_token     |-> access_token,
      user_id          |-> user_id ]

\* lines 252-291: get_provider, the account query and, when one account is
\* found, the rest of the call
OAuthLookup(accounts, us, provider_name, provider_user_id, access_token) ==
    LET found == AccountsOf(accounts, provider_name, provider_user_id)
    IN  IF ~GetProviderAccepts(provider_name)
        THEN [ accounts |-> accounts, outcome |-> "ValueError", user |-> None ]
        ELSE IF BagCardinality(found) > 1
        THEN [ accounts |-> accounts, outcome |-> "MultipleResultsFound",
               user |-> None ]
        ELSE IF BagCardinality(found) = 0
        THEN [ accounts |-> accounts, outcome |-> "absent", user |-> None ]
        ELSE LET row == CHOOSE r \in DOMAIN found : TRUE
             IN  IF row.user_id \notin DOMAIN us \/ ~us[row.user_id].is_active
                 THEN [ accounts |-> accounts,
                        outcome |-> "AuthenticationError", user |-> None ]
                 ELSE [ accounts |-> UpdateOne(accounts, row,
                            [ row EXCEPT !.access_token = access_token ]),
                        outcome |-> "ok", user |-> Some(row.user_id) ]

\* lines 299-318: link a new account to the principal found by email
OAuthLink(accounts, provider_name, provider_user_id, email, access_token, user_id) ==
    accounts (+) SetToBag({ NewAccount(provider_name, provider_user_id, email,
                                       access_token, user_id) })

\* lines 320-367 without the test of the tenant
OAuthCreateAnyTenant(accounts, us, provider_name, provider_user_id, email, access_token, tenant_id) ==
    IF UserByEmail(us, email) # None
    THEN [ accounts |-> accounts, users |-> us,
           outcome |-> "IntegrityError", user |-> None ]
    ELSE LET id == NextUserId(us)
             row == [ NewUser(email, None, tenant_id)
                        EXCEPT !.is_email_verified = TRUE ]
         IN  [ accounts |-> OAuthLink(accounts, provider_name,
                                      provider_user_id, email, access_token,
                                      id),
               users |-> [ u \in DOMAIN us \cup {id} |->
                             IF u = id THEN row ELSE us[u] ],
               outcome |-> "ok", user |-> Some(id) ]

\* lines 320-367: create the principal and its account; the unique index on
\* users.email rejects a second principal with the same email
OAuthCreate(accounts, us, provider_name, provider_user_id, email, access_token, tenant_id) ==
    IF tenant_id \notin DOMAIN Tenants \/ ~Tenants[tenant_id].is_active
    THEN [ accounts |-> accounts, users |-> us,
           outcome |-> "AuthenticationError", user |-> None ]
    ELSE IF UserByEmail(us, email) # None
    THEN [ accounts |-> accounts, users |-> us,
           outcome |-> "IntegrityError", user |-> None ]
    ELSE LET id == NextUserId(us)
             row == [ NewUser(email, None, tenant_id)
                        EXCEPT !.is_email_verified = TRUE ]
         IN  [ accounts |-> OAuthLink(accounts, provider_name,
                                      provider_user_id, email, access_token,
                                      id),
               users |-> [ u \in DOMAIN us \cup {id} |->
                             IF u = id THEN row ELSE us[u] ],
               outcome |-> "ok", user |-> Some(id) ]

(***************************************************************************)
(* SpecOAuth: authenticate_with_code from two workers.  A call is up to    *)
(* three steps, one per database round trip: the account query, the query  *)
(* by email, and the insert with its commit.                               *)
(***************************************************************************)
othersOAuth == << tokenVars, totpVars, mismatches, cache, outbox, tokenSeq,
                  returned >>

ProviderNames == {"google", "Google", "gitlab"}
Subjects == {"s1"}
ProviderEmails == {"a@x.com", "c@x.com"}
TenantIds == {"t1", "t2"}

\* how an authenticate_with_code call of worker w ends
OAuthDone(w, provider_name, provider_user_id, outcome, user) ==
    /\ last' = [ op |-> "authenticate_with_code",
                 provider_name |-> provider_name,
                 provider_user_id |-> provider_user_id,
                 outcome |-> outcome, user |-> user ]
    /\ resolved' = IF user = None THEN resolved
                   ELSE resolved \cup { << Lower(provider_name),
                                           provider_user_id, user[1] >> }

OAuthBegin(w, provider_name, provider_user_id, email, tenant_id) ==
    LET r == OAuthLookup(oauth_accounts, users, provider_name,
                         provider_user_id, "access")
    IN  /\ proc[w].pc = "idle"
        /\ oauth_accounts' = r.accounts
        /\ IF r.outcome = "absent"
           THEN /\ proc' = [ proc EXCEPT ![w] =
                               [ pc |-> "email",
                                 provider_name |-> provider_name,
                                 provider_user_id |-> provider_user_id,
                                 email |-> email, tenant_id |-> tenant_id ] ]
                /\ UNCHANGED << last, resolved >>
           ELSE /\ proc' = proc
                /\ OAuthDone(w, provider_name, provider_user_id, r.outcome,
                             r.user)
        /\ UNCHANGED << clockVars, users, othersOAuth >>

\* select(User).where(User.email == email)
OAuthEmail(w) ==
    /\ proc[w].pc = "email"
    /\ LET found == UserByEmail(users, proc[w].email)
       IN  proc' = [ proc EXCEPT ![w] =
                       IF found = None
                       THEN [ @ EXCEPT !.pc = "create" ]
                       ELSE [ pc |-> "link",
                              provider_name |-> @.provider_name,
                              provider_user_id |-> @.provider_user_id,
                              email |-> @.email, tenant_id |-> @.tenant_id,
                              user_id |-> found[1] ] ]
    /\ UNCHANGED << clockVars, users, oauthVars, last, othersOAuth >>

OAuthLinkCommit(w) ==
    /\ proc[w].pc = "link"
    /\ LET p == proc[w]
       IN  /\ oauth_accounts' = OAuthLink(oauth_accounts, p.provider_name,
                                          p.provider_user_id, p.email,
                                          "access", p.user_id)
           /\ OAuthDone(w, p.provider_name, p.provider_user_id, "ok",
                        Some(p.user_id))
    /\ proc' = [ proc EXCEPT ![w] = [ pc |-> "idle" ] ]
    /\ UNCHANGED << clockVars, users, othersOAuth >>

OAuthCreateCommit(w) ==
    /\ proc[w].pc = "create"
    /\ LET p == proc[w]
           r == OAuthCreate(oauth_accounts, users, p.provider_name,
                            p.provider_user_id, p.email, "access",
                            p.tenant_id)
       IN  /\ oauth_accounts' = r.accounts
           /\ users' = r.users
           /\ OAuthDone(w, p.provider_name, p.provider_user_id, r.outcome,
                        r.user)
    /\ proc' = [ proc EXCEPT ![w] = [ pc |-> "idle" ] ]
    /\ UNCHANGED << clockVars, othersOAuth >>

InitOAuth ==
    /\ now = 0
    /\ ticks = 0
    /\ InitUsers
    /\ InitTokens
    /\ InitTwoFactor
    /\ InitMagic
    /\ InitMismatches
    /\ InitLast

NextOAuth ==
    \/ \E w \in Workers, provider_name \in ProviderNames,
          provider_user_id \in Subjects, email \in ProviderEmails,
          tenant_id \in TenantIds :
          OAuthBegin(w, provider_name, provider_user_id, email, tenant_id)
    \/ \E w \in Workers : OAuthEmail(w)
    \/ \E w \in Workers : OAuthLinkCommit(w)
    \/ \E w \in Workers : OAuthCreateCommit(w)

SpecOAuth == InitOAuth /\ [][NextOAuth]_vars

\* C7: calls that resolve to the same (provider, subject id) return the same
\* principal, and the table never holds more than one account for one
\* (provider, subject id), the provider being the one get_provider resolves
\* the name to.
C7_FederatedIdentityUnique ==
    /\ \A a, b \in resolved :
          (a[1] = b[1] /\ a[2] = b[2]) => a[3] = b[3]
    /\ \A p \in Providers, sub \in Subjects :
          BagCardinality(Where(oauth_accounts,
              LAMBDA r : Lower(r.provider) = p /\ r.provider_user_id = sub))
            <= 1

\* C11: a request_magic_link call that finds the (ip, email) pair at its
\* limit of the window fails with a rate-limit error, writes no magic-link
\* token and triggers no notification, whether or not the email has an
\* account; and no counter ever stands above the limit.
C11_RateLimited ==
    /\ \A k \in DOMAIN cache :
          k[1] = "magic_link_rate" => cache[k].value <= MAX_REQUESTS_PER_WINDOW
    /\ (last.op = "request_magic_link" /\ last.rateLimited) =>
          /\ ~last.tokenWritten /\ ~last.notified
          /\ last.outcome # "true"
          /\ \/ last.outcome = "RateLimitError"
             \/ last.response.message = "Too many requests. Please try again later."

\* a refresh token that has been refreshed before and is neither expired
\* nor revoked, its owner being active
Reusable(tokens, us, raw, t) ==
    /\ VerifyToken(raw, "refresh", t) = "ok"
    /\ raw \notin revokedRaw
    /\ raw.sub \in DOMAIN us /\ us[raw.sub].is_active
    /\ \E r \in DOMAIN tokens :
          /\ r.token_hash = HashToken(raw) /\ r.token_type = "refresh"
          /\ r.last_used_at # None
          /\ ~r.is_revoked /\ ~IsExpired(r, t)

\* the step changed nothing in the table but the usage stamps (last_used_at,
\* and updated_at which every UPDATE sets) of one row with the given hash
OnlyUsageStamped(before, after, hash) ==
    \E r \in DOMAIN before, r2 \in DOMAIN after :
        /\ r.token_hash = hash
        /\ r2 = [ r EXCEPT !.last_used_at = r2.last_used_at,
                           !.updated_at = r2.updated_at ]
        /\ before (-) SetToBag({r}) = after (-) SetToBag({r2})

\* C12: a successful refresh_access_token creates, deletes and revokes no
\* stored token and changes only the usage stamp of the matched one; it
\* returns the raw refresh token it was given and an access token with the
\* owner's principal id and tenant id; and a refresh token that has been
\* refreshed before is accepted again as long as it is neither expired nor
\* revoked.
C12_NoRotation ==
    [][ (last'.op = "refresh_access_token" /\ now' = now) =>
          /\ last'.ok =>
                /\ OnlyUsageStamped(auth_tokens, auth_tokens',
                                    HashToken(last'.token))
                /\ last'.response[1].refresh_token = last'.token
                /\ last'.response[1].access_token.sub = last'.token.sub
                /\ last'.response[1].access_token.tenant_id
                      = users[last'.token.sub].tenant_id
          /\ Reusable(auth_tokens, users, last'.token, now) => last'.ok
      ]_vars

\* the frame part of C12 alone
RefreshFrame ==
    [][ (last'.op = "refresh_access_token" /\ now' = now /\ last'.ok) =>
          OnlyUsageStamped(auth_tokens, auth_tokens', HashToken(last'.token))
      ]_vars

\* the refresh rows of a table with the hash of a raw token and an owner
RevokeMatches(tokens, raw, user_id) ==
    { r \in DOMAIN tokens : /\ r.token_hash = HashToken(raw)
                            /\ r.user_id = user_id
                            /\ r.token_type = "refresh" }

\* C13: revoke_token returns true and leaves the stored token revoked
\* whenever a refresh row with that hash owned by that principal exists,
\* changing no state when the row is already revoked; it returns false and
\* changes no stored token when there is no such row (in particular when the
\* token belongs to another principal).
C13_RevokeToken ==
    [][ (last'.op = "revoke_token" /\ now' = now) =>
          LET m == RevokeMatches(auth_tokens, last'.token, last'.user)
          IN  IF m # {}
              THEN /\ last'.result
                   /\ \A r \in RevokeMatches(auth_tokens', last'.token,
                                             last'.user) : r.is_revoked
                   /\ (\A r \in m : r.is_revoked) => auth_tokens' = auth_tokens
              ELSE /\ ~last'.result
                   /\ auth_tokens' = auth_tokens
      ]_vars

\* the refresh rows of a principal
RefreshRowsOf(tokens, user_id) ==
    Where(tokens, LAMBDA r : r.user_id = user_id /\ r.token_type = "refresh")

\* the rows that are not refresh rows of a principal
RowsBeside(tokens, user_id) ==
    Where(tokens, LAMBDA r : ~(r.user_id = user_id /\ r.token_type = "refresh"))

\* C14: revoke_all_user_tokens marks every non-revoked refresh row of the
\* principal revoked and returns the number of rows it marked, changes no
\* row of another principal, and an immediately repeated call returns 0;
\* from then on no refresh token that had been issued to the principal
\* before the call is accepted by refresh_access_token.
C14_RevokeAll ==
    [][ now' = now =>
          /\ last'.op = "revoke_all_user_tokens" =>
                LET u == last'.user
                IN  /\ \A r \in DOMAIN RefreshRowsOf(auth_tokens', u) :
                          r.is_revoked
                    /\ last'.result =
                          BagCardinality(Where(RefreshRowsOf(auth_tokens, u),
                                               LAMBDA r : ~r.is_revoked))
                    /\ BagCardinality(auth_tokens') = BagCardinality(auth_tokens)
                    /\ RowsBeside(auth_tokens', u) = RowsBeside(auth_tokens, u)
                    /\ RevokeAllUserTokens(auth_tokens', u, now).result = 0
                    /\ \A raw \in issued : raw.sub = u =>
                          ~RefreshAccessToken(auth_tokens', users, raw, now).ok
          /\ (last'.op = "refresh_access_token" /\ last'.token \in loggedOut)
                => ~last'.ok
      ]_vars

\* the part of C14 about the revoke_all_user_tokens step itself
RevokeAllStep ==
    [][ (now' = now /\ last'.op = "revoke_all_user_tokens") =>
          LET u == last'.user
          IN  /\ \A r \in DOMAIN RefreshRowsOf(auth_tokens', u) : r.is_revoked
              /\ last'.result =
                    BagCardinality(Where(RefreshRowsOf(auth_tokens, u),
                                         LAMBDA r : ~r.is_revoked))
              /\ BagCardinality(auth_tokens') = BagCardinality(auth_tokens)
              /\ RowsBeside(auth_tokens', u) = RowsBeside(auth_tokens, u)
              /\ RevokeAllUserTokens(auth_tokens', u, now).result = 0
              /\ \A raw \in issued : raw.sub = u =>
                    ~RefreshAccessToken(auth_tokens', users, raw, now).ok
      ]_vars

(***************************************************************************)
(* What the callers of verify_token get to see.  security.py imports the   *)
(* PyJWT module as jwt; that module has ExpiredSignatureError but no       *)
(* attribute JWTError, so reaching the second except clause of             *)
(* verify_token raises AttributeError in place of the exception at hand.   *)
(***************************************************************************)
Failures == { "expired", "type_mismatch", "invalid" }

\* SecurityManager.verify_token as its caller sees it: "ok" or the exception
VerifyTokenRaises(token, token_type, t) ==
    LET found == VerifyToken(token, token_type, t)
    IN  IF found = "ok" THEN "ok"
        ELSE IF found = "expired" THEN "AuthenticationError: Token has expired"
        ELSE "AttributeError"

\* get_current_user: the principal, or the detail of the 401 response
GetCurrentUser(us, token, t) ==
    LET raised == VerifyTokenRaises(token, "access", t)
    IN  IF raised = "AttributeError" THEN "Authentication failed"
        ELSE IF raised # "ok" THEN "Invalid or expired token"
        ELSE IF token.sub \notin DOMAIN us \/ ~us[token.sub].is_active
             THEN "Invalid or expired token"
        ELSE token.sub

\* what a caller of operation op is told for a token
OutcomeOf(op, tokens, us, token, token_type, t) ==
    IF op = "verify_token" THEN VerifyTokenRaises(token, token_type, t)
    ELSE IF op = "get_current_user" THEN GetCurrentUser(us, token, t)
    ELSE LET r == RefreshAccessToken(tokens, us, token, t)
         IN  IF r.ok THEN "ok" ELSE r.error

\* the token type an operation expects
ExpectedType(op, token_type) ==
    IF op = "get_current_user" THEN "access"
    ELSE IF op = "refresh_access_token" THEN "refresh"
    ELSE token_type

\* the tokens of the logins at instant 0 and a forged one
VerifyInputs ==
    { ForgedToken } \cup
    UNION { { CreateTokens(EmptyBag, InitialUsers, u, 0).response.access_token,
              CreateTokens(EmptyBag, InitialUsers, u, 0).response.refresh_token }
            : u \in UserIds }

VerifyOps == { "verify_token", "get_current_user", "refresh_access_token" }

\* one call of verify_token, get_current_user or refresh_access_token
VerifyCall(op, token, token_type) ==
    LET expected == ExpectedType(op, token_type)
        r == RefreshAccessToken(auth_tokens, users, token, now)
    IN  /\ auth_tokens' = IF op = "refresh_access_token" THEN r.tokens
                          ELSE auth_tokens
        /\ last' = [ op |-> op, token |-> token, expected |-> expected,
                     at |-> now,
                     cause |-> VerifyToken(token, expected, now),
                     outcome |-> OutcomeOf(op, auth_tokens, users, token,
                                           expected, now) ]
        /\ UNCHANGED << clockVars, users, issued, revokedRaw, loggedOut,
                        othersTokens >>

InitVerify ==
    /\ now = TokenInstants[1]
    /\ ticks = 0
    /\ InitUsers
    /\ auth_tokens = CreateTokens(
                        CreateTokens(EmptyBag, InitialUsers, "u1", 0).tokens,
                        InitialUsers, "u2", 0).tokens
    /\ issued = { t \in VerifyInputs : t.type = "refresh" /\ t.sig = "server" }
    /\ revokedRaw = {}
    /\ loggedOut = {}
    /\ InitTwoFactor
    /\ InitMagic
    /\ InitMismatches
    /\ InitLast

NextVerify ==
    \/ \E op \in VerifyOps, token \in VerifyInputs,
          token_type \in { "access", "refresh" } :
              VerifyCall(op, token, token_type)
    \/ TokensTick

SpecVerify == InitVerify /\ [][NextVerify]_vars

\* C15: an expired token, a token of the wrong type and a malformed or
\* forged token are rejected with three distinct outcomes, by verify_token
\* and also as seen by the caller of refresh_access_token and of
\* get_current_user: two rejected tokens with different causes never give
\* the caller the same outcome.
C15_DistinctFailures ==
    (last.op \in VerifyOps /\ last.cause \in Failures) =>
        \A token \in VerifyInputs :
            LET cause == VerifyToken(token, last.expected, last.at)
            IN  cause \in Failures \ { last.cause } =>
                   OutcomeOf(last.op, auth_tokens, users, token,
                             last.expected, last.at) # last.outcome

\* C16: a stored token is treated as valid exactly when it is not revoked
\* and now < expires_at, so that at now = expires_at it is not valid any
\* more; and refresh_access_token accepts a token only when a stored row of
\* it is valid in that sense.
C16_ValidUntilExpiry ==
    /\ \A r \in DOMAIN auth_tokens :
          IsValid(r, now) <=> (~r.is_revoked /\ now < r.expires_at)
    /\ \A raw \in issued :
          RefreshAccessToken(auth_tokens, users, raw, now).ok =>
              \E r \in DOMAIN auth_tokens :
                  /\ r.token_hash = HashToken(raw)
                  /\ ~r.is_revoked /\ now < r.expires_at

\* the part of C16 about acceptance by refresh_access_token
RefreshOnlyBeforeExpiry ==
    \A raw \in issued :
        RefreshAccessToken(auth_tokens, users, raw, now).ok =>
            \E r \in DOMAIN auth_tokens :
                /\ r.token_hash = HashToken(raw)
                /\ ~r.is_revoked /\ now < r.expires_at

\* the values generate_secure_token can hand out
EphemeralTokens == { TokenNames[i] : i \in 1..Len(TokenNames) }

\* C17: the durable store never holds a raw token value: a refresh token is
\* stored only as its hash, and no User row (nor any other durable record)
\* holds the value of a magic-link, email-verification or password-reset
\* token.
C17_NoRawTokenStored ==
    /\ \A r \in DOMAIN auth_tokens :
          /\ r.token_hash \notin issued
          /\ \E raw \in issued : r.token_hash = HashToken(raw)
    /\ \A u \in DOMAIN users, token \in EphemeralTokens :
          /\ users[u].email_verification_token # Some(token)
          /\ users[u].password_reset_token # Some(token)

\* C18: Enabled is entered only from PendingVerification: a principal who
\* has disabled 2FA and has not run setup_2fa since then is not Enabled,
\* whatever verify_2fa_setup calls were made in between.
C18_EnabledOnlyAfterSetup ==
    \A u \in needsSetup : ~Is2FAEnabled(two_factor, u)

\* C19: for a principal with 2FA Enabled, verify_2fa_login returns true for
\* a valid TOTP code and, failing that, for a code of the stored backup
\* list, and on both paths last_used_at is set to the time of the call; for
\* a code that is neither it returns false and changes nothing.
C19_Verify2FALogin ==
    [][ ( /\ last'.op = "verify_2fa_login"
          /\ now' = now
          /\ last'.user \in DOMAIN users
          /\ Is2FAEnabled(two_factor, last'.user) ) =>
            LET u == last'.user
                totp == VerifyTotpCode(Decrypt(two_factor[u][1].secret_key),
                                       last'.code, now)
                backup == VerifyBackupCode(
                              Decrypt(two_factor[u][1].backup_codes),
                              last'.code)[1]
            IN  IF totp \/ backup
                THEN /\ last'.outcome = "true"
                     /\ two_factor'[u][1].last_used_at = Some(now)
                ELSE /\ last'.outcome = "false"
                     /\ two_factor' = two_factor
      ]_vars

\* the TOTP path and the rejecting path of C19
Verify2FALoginTotpPath ==
    [][ ( /\ last'.op = "verify_2fa_login"
          /\ now' = now
          /\ last'.user \in DOMAIN users
          /\ Is2FAEnabled(two_factor, last'.user)
          /\ ~BackupMatch(two_factor, last'.user, last'.code, now) ) =>
            LET u == last'.user
            IN  IF VerifyTotpCode(Decrypt(two_factor[u][1].secret_key),
                                  last'.code, now)
                THEN /\ last'.outcome = "true"
                     /\ two_factor'[u][1].last_used_at = Some(now)
                ELSE /\ last'.outcome = "false"
                     /\ two_factor' = two_factor
      ]_vars

\* C20: disable_2fa returns true, and moves the principal from Enabled to
\* Disabled, only when 2FA is Enabled and the supplied code is a currently
\* valid TOTP code or (upper-cased and stripped, as verify_backup_code
\* compares) one of the stored backup codes, changing nothing else of the
\* credential; with any other code, or when 2FA is not Enabled, it returns
\* false and leaves the credential unchanged.
C20_Disable2FA ==
    [][ ( /\ last'.op = "disable_2fa"
          /\ now' = now
          /\ last'.user \in DOMAIN users ) =>
            LET u == last'.user
                code == last'.code
                enabled == two_factor[u] # None /\ two_factor[u][1].is_enabled
                totp == /\ code[1] = "totp"
                        /\ code[2] = Decrypt(two_factor[u][1].secret_key)
                        /\ code[3] \in (TimeCode(now) - TOTP_WINDOW)
                                          ..(TimeCode(now) + TOTP_WINDOW)
                stored == Decrypt(two_factor[u][1].backup_codes)
                backup == \E i \in 1..Len(stored) :
                              stored[i] = << code[1], UpperStrip(code[2]),
                                             code[3] >>
            IN  IF enabled /\ (totp \/ backup)
                THEN /\ last'.outcome = "true"
                     /\ two_factor' =
                           [ two_factor EXCEPT ![u] =
                               Some([ two_factor[u][1] EXCEPT
                                        !.is_enabled = FALSE ]) ]
                ELSE /\ last'.outcome = "false"
                     /\ two_factor' = two_factor
      ]_vars

\* disable_2fa has just refused a wrong code and 2FA is still Enabled
C20_Witness ==
    /\ last.op = "disable_2fa"
    /\ last.user = "u1"
    /\ last.code = TextCode("ZZZZ9999")
    /\ last.outcome = "false"
    /\ Is2FAEnabled(two_factor, "u1")

\* disable_2fa has just accepted a stored backup code typed in lower case
Disable2FAByBackupCode ==
    /\ last.op = "disable_2fa"
    /\ last.code = TextCode("aaaa1111")
    /\ last.outcome = "true"
    /\ two_factor[last.user] # None
    /\ ~two_factor[last.user][1].is_enabled

RegenerateRefusesBackupCode ==
    /\ last.op = "regenerate_backup_codes"
    /\ last.code[1] = "text"
    /\ Is2FAEnabled(two_factor, last.user)
    /\ VerifyBackupCode(Decrypt(two_factor[last.user][1].backup_codes),
                        last.code)[1]
    /\ last.outcome = "None"

\* C22: setup_2fa leaves the principal with exactly one credential row,
\* not enabled, whatever the state before, holding the secret and the
\* backup codes the call returned; afterwards verify_2fa_setup accepts only
\* codes of the returned secret and the stored backup list is the returned
\* one, so codes of the previous secret and previous backup codes are no
\* longer accepted (save values that were drawn again).
C22_Setup2FA ==
    [][ ( /\ last'.op = "setup_2fa"
          /\ now' = now
          /\ last'.user \in DOMAIN users ) =>
            LET u == last'.user
                row == two_factor'[u][1]
            IN  /\ last'.outcome = "ok"
                /\ two_factor'[u] # None
                /\ ~row.is_enabled
                /\ row.secret_key = Encrypt(last'.secret_key[1])
                /\ row.backup_codes = Encrypt(last'.backup_codes[1])
                /\ \A v \in DOMAIN two_factor \ {u} :
                      two_factor'[v] = two_factor[v]
                /\ \A code \in CodeInputs(now) :
                      /\ Verify2FASetup(two_factor', u, code, now).outcome = "true"
                            => (code[1] = "totp" /\ code[2] = last'.secret_key[1])
                      /\ VerifyBackupCode(Decrypt(row.backup_codes), code)[1]
                            => \E i \in 1..Len(last'.backup_codes[1]) :
                                  last'.backup_codes[1][i]
                                     = << code[1], UpperStrip(code[2]), code[3] >>
                      /\ Verify2FALogin(two_factor', u, code, now).outcome = "false"
      ]_vars

\* setup_2fa has just been run by a principal whose 2FA was Enabled
C22_Witness ==
    /\ last.op = "setup_2fa"
    /\ last.outcome = "ok"
    /\ last.wasEnabled
    /\ two_factor[last.user] # None
    /\ ~two_factor[last.user][1].is_enabled

(***************************************************************************)
(* SpecFed: whole authenticate_with_code calls, one after the other, with  *)
(* the user info a provider can return (the id or the email may be         *)
(* missing) and an inactive principal in the users table.                  *)
(***************************************************************************)
\* str(user_info.get('id')): a missing id becomes the text "None"
StrOfId(id) == IF id = None THEN "None" ELSE id[1]

\* lines 263-267: the completeness test on the user info
IncompleteUserInfo(user_info) ==
    StrOfId(user_info.id) = "" \/ user_info.email = None

\* OAuth2Service.authenticate_with_code from the user info on
AuthenticateWithCode(accounts, us, provider_name, access_token, user_info, tenant_id) ==
    LET provider_user_id == StrOfId(user_info.id)
        same == [ accounts |-> accounts, users |-> us, user |-> None ]
    IN  IF ~GetProviderAccepts(provider_name)
        THEN same @@ [ outcome |-> "ValueError" ]
        ELSE IF IncompleteUserInfo(user_info)
        THEN same @@ [ outcome |-> "AuthenticationError" ]
        ELSE LET email == user_info.email[1]
                 r == OAuthLookup(accounts, us, provider_name,
                                  provider_user_id, access_token)
                 found == UserByEmail(us, email)
             IN  IF r.outcome # "absent"
                 THEN [ accounts |-> r.accounts, users |-> us,
                        user |-> r.user, outcome |-> r.outcome ]
                 ELSE IF found # None
                 THEN [ accounts |-> OAuthLink(accounts, provider_name,
                                               provider_user_id, email,
                                               access_token, found[1]),
                        users |-> us, user |-> found, outcome |-> "ok" ]
                 ELSE OAuthCreate(accounts, us, provider_name,
                                  provider_user_id, email, access_token,
                                  tenant_id)

FedProviderNames == {"google", "gitlab"}
FedIds == { Some("s1"), None }
FedAccessTokens == {"at1", "at2"}
FedEmails == { Some("a@x.com"), Some("b@x.com"), Some("c@x.com"), None }
FedTenantIds == {"t1", "t2"}

\* verify_magic_link without the test of users.is_active
VerifyMagicLinkAnyUser(c, us, token, t) ==
    LET token_key == TokenKey("magic_link", token)
        token_data == CacheGet(c, token_key, FALSE, t)
    IN  IF token_data = None \/ token_data[1].user_id \notin DOMAIN us
        THEN [ cache |-> c, outcome |-> "AuthenticationError", user |-> None ]
        ELSE [ cache |-> CacheDelete(c, token_key, FALSE),
               outcome |-> "ok", user |-> Some(token_data[1].user_id) ]

\* PasswordlessService.verify_magic_link as one call
VerifyMagicLink(c, us, token, t) ==
    LET token_key == TokenKey("magic_link", token)
        token_data == CacheGet(c, token_key, FALSE, t)
        failed == [ cache |-> c, outcome |-> "AuthenticationError",
                    user |-> None ]
    IN  IF token_data = None THEN failed
        ELSE LET user_id == token_data[1].user_id
             IN  IF user_id \notin DOMAIN us \/ ~us[user_id].is_active
                 THEN failed
                 ELSE [ cache |-> CacheDelete(c, token_key, FALSE),
                        outcome |-> "ok", user |-> Some(user_id) ]

VerifyMagicLinkCall(token) ==
    LET r == VerifyMagicLink(cache, users, token, now)
        token_data == CacheGet(cache, TokenKey("magic_link", token), FALSE, now)
    IN  /\ cache' = r.cache
        /\ last' = [ op |-> "verify_magic_link", token |-> token,
                     principal |-> IF token_data = None THEN None
                                   ELSE Some(token_data[1].user_id),
                     outcome |-> r.outcome, user |-> r.user ]
        /\ UNCHANGED << clockVars, users, tokenSeq, proc, returned,
                        othersRedeem >>

\* an administrator clears users.is_active of a principal
DeactivateUser(u) ==
    /\ users[u].is_active
    /\ users' = [ users EXCEPT ![u].is_active = FALSE ]
    /\ last' = [ op |-> "deactivate", user |-> u ]
    /\ UNCHANGED << clockVars, cache, tokenSeq, proc, returned, othersRedeem >>

AuthenticateWithCodeCall(provider_name, access_token, id, email, tenant_id) ==
    LET user_info == [ id |-> id, email |-> email ]
        r == AuthenticateWithCode(oauth_accounts, users, provider_name,
                                  access_token, user_info, tenant_id)
    IN  /\ oauth_accounts' = r.accounts
        /\ users' = r.users
        /\ last' = [ op |-> "authenticate_with_code",
                     provider_name |-> provider_name,
                     access_token |-> access_token,
                     user_info |-> user_info, tenant_id |-> tenant_id,
                     outcome |-> r.outcome, user |-> r.user ]
        /\ resolved' = resolved
        /\ UNCHANGED << clockVars, othersOAuth, proc >>

InitFed ==
    /\ now = 0
    /\ ticks = 0
    /\ users = [ InitialUsers EXCEPT !["u2"].is_active = FALSE ]
    /\ InitTokens
    /\ InitTwoFactor
    /\ InitMagic
    /\ InitMismatches
    /\ InitLast

NextFed ==
    \/ \E provider_name \in FedProviderNames,
          access_token \in FedAccessTokens, id \in FedIds,
          email \in FedEmails, tenant_id \in FedTenantIds :
            AuthenticateWithCodeCall(provider_name, access_token, id, email,
                                     tenant_id)
    \/ (tokenSeq < MaxLinks /\ IssueMagicLink(FALSE))
    \/ \E token \in Presentable : VerifyMagicLinkCall(token)
    \/ DeactivateUser("u1")

SpecFed == InitFed /\ [][NextFed]_vars

\* C23: authenticate_with_code fails with AuthenticationError, and creates
\* or modifies no principal and no federated identity, whenever the user
\* info the provider returned lacks the subject id or lacks the email.
C23_IncompleteUserInfo ==
    [][ ( /\ last'.op = "authenticate_with_code"
          /\ GetProviderAccepts(last'.provider_name)
          /\ (last'.user_info.id = None \/ last'.user_info.email = None) ) =>
            /\ last'.outcome = "AuthenticationError"
            /\ users' = users
            /\ oauth_accounts' = oauth_accounts
      ]_vars

\* the part of C23 about a missing email
MissingEmailFails ==
    [][ ( /\ last'.op = "authenticate_with_code"
          /\ GetProviderAccepts(last'.provider_name)
          /\ last'.user_info.email = None ) =>
            /\ last'.outcome = "AuthenticationError"
            /\ users' = users
            /\ oauth_accounts' = oauth_accounts
      ]_vars

CreateRefusedForTenant ==
    /\ last.op = "authenticate_with_code"
    /\ last.tenant_id # "t1"
    /\ last.user_info = [ id |-> Some("s1"), email |-> Some("c@x.com") ]
    /\ last.outcome = "AuthenticationError"
    /\ DOMAIN users = UserIds

\* C25: no login through an existing record returns an inactive
\* principal: verify_magic_link fails with AuthenticationError when the
\* principal of the token is inactive, and authenticate_with_code fails
\* with AuthenticationError when the principal linked to the matching
\* (provider, subject id) account is inactive, the account row, and so the
\* provider token stored in it, staying as it was.
C25_InactivePrincipal ==
    [][ /\ ( /\ last'.op = "verify_magic_link"
             /\ last'.principal # None
             /\ ~users[last'.principal[1]].is_active ) =>
               /\ last'.outcome = "AuthenticationError"
               /\ last'.user = None
        /\ ( /\ last'.op = "authenticate_with_code"
             /\ GetProviderAccepts(last'.provider_name)
             /\ last'.user_info.email # None
             /\ \E r \in DOMAIN oauth_accounts :
                   /\ r.provider = last'.provider_name
                   /\ r.provider_user_id = StrOfId(last'.user_info.id)
                   /\ ~users[r.user_id].is_active ) =>
               /\ last'.outcome = "AuthenticationError"
               /\ last'.user = None
               /\ oauth_accounts' = oauth_accounts
               /\ users' = users
      ]_vars

\* a federated login has just been refused because the principal linked to
\* the account it matched is inactive
C25_Witness ==
    /\ last.op = "authenticate_with_code"
    /\ last.outcome = "AuthenticationError"
    /\ last.user_info.email # None
    /\ \E r \in DOMAIN oauth_accounts :
          /\ r.provider = last.provider_name
          /\ r.provider_user_id = StrOfId(last.user_info.id)
          /\ ~users[r.user_id].is_active
          /\ r.access_token # last.access_token

\* a magic link of a principal deactivated since has just been refused
MagicLinkRefusedInactive ==
    /\ last.op = "verify_magic_link"
    /\ last.principal = Some("u1")
    /\ ~users["u1"].is_active
    /\ last.outcome = "AuthenticationError"
\* a first federated login found an inactive principal by its email, linked
\* the account to it and returned it
LinkByEmailReturnsInactive ==
    /\ last.op = "authenticate_with_code"
    /\ last.outcome = "ok"
    /\ last.user # None
    /\ ~users[last.user[1]].is_active

(***************************************************************************)
(* SpecReset: password resets of a@x.com, one call at a time, over the     *)
(* one-hour life of a reset token.                                         *)
(***************************************************************************)
\* cache.set(token_key, token_data, 60 * 60)
RESET_TOKEN_TTL == 60 * 60

\* PasswordlessService.verify_password_reset as one call; fget and fdel say
\* whether its cache.get and its cache.delete hit a Redis error
VerifyPasswordReset(c, us, token, new_password, fget, fdel, t) ==
    LET token_key == TokenKey("password_reset", token)
        token_data == CacheGet(c, token_key, fget, t)
        failed == [ cache |-> c, users |-> us, outcome |-> "ValidationError" ]
    IN  IF token_data = None THEN failed
        ELSE LET r == RedeemDb(us, "password_reset", token_data[1].user_id,
                               new_password)
             IN  IF ~r.ok THEN failed
                 ELSE [ cache |-> CacheDelete(c, token_key, fdel),
                        users |-> r.users, outcome |-> "true" ]

VerifyPasswordResetCall(token, new_password, fget, fdel) ==
    LET r == VerifyPasswordReset(cache, users, token, new_password, fget,
                                 fdel, now)
    IN  /\ cache' = r.cache
        /\ users' = r.users
        /\ last' = [ op |-> "verify_password_reset", token |-> token,
                     new_password |-> new_password, outcome |-> r.outcome ]
        /\ UNCHANGED << clockVars, tokenSeq, proc, returned, othersRedeem >>

TickReset ==
    /\ Tick(RESET_TOKEN_TTL)
    /\ UNCHANGED << users, magicVars, last, tokenVars, totpVars, mismatches,
                    oauthVars >>

NextReset ==
    \/ \E fault \in BOOLEAN : SendPasswordResetCall("a@x.com", fault)
    \/ \E token \in Presentable, new_password \in Passwords,
          fget \in BOOLEAN, fdel \in BOOLEAN :
            VerifyPasswordResetCall(token, new_password, fget, fdel)
    \/ TickReset

SpecReset == InitRedeem /\ [][NextReset]_vars

\* the reset token as the cache holds it now, read without error
StoredReset(token) ==
    CacheGet(cache, TokenKey("password_reset", token), FALSE, now)

\* C26: a successful verify_password_reset overwrites the credential hash
\* of the principal (the new password authenticates, the old one no longer
\* does), clears the stored reset token and deletes the cache entry of the
\* token, so that the token cannot be redeemed again; with an absent or
\* expired token it fails with ValidationError and leaves every credential
\* hash unchanged.
C26_PasswordReset ==
    [][ (last'.op = "verify_password_reset" /\ now' = now) =>
          LET token_data == StoredReset(last'.token)
          IN  /\ last'.outcome = "true" =>
                   LET u == token_data[1].user_id
                   IN  /\ token_data # None
                       /\ VerifyPassword(users'[u], last'.new_password)
                       /\ \A old \in Passwords \ {last'.new_password} :
                             ~VerifyPassword(users'[u], old)
                       /\ users'[u].password_reset_token = None
                       /\ CacheGet(cache', TokenKey("password_reset",
                                   last'.token), FALSE, now) = None
              /\ token_data = None =>
                   /\ last'.outcome = "ValidationError"
                   /\ users' = users
      ]_vars

\* the same without the deletion of the cache entry
ResetOverwritesHash ==
    [][ (last'.op = "verify_password_reset" /\ now' = now) =>
          LET token_data == StoredReset(last'.token)
          IN  /\ last'.outcome = "true" =>
                   LET u == token_data[1].user_id
                   IN  /\ token_data # None
                       /\ VerifyPassword(users'[u], last'.new_password)
                       /\ \A old \in Passwords \ {last'.new_password} :
                             ~VerifyPassword(users'[u], old)
                       /\ users'[u].password_reset_token = None
                       /\ users'[u].password_reset_expires = None
                       /\ \A v \in DOMAIN users \ {u} : users'[v] = users[v]
              /\ token_data = None =>
                   /\ last'.outcome = "ValidationError"
                   /\ users' = users
                   /\ cache' = cache
      ]_vars

\* a reset has just changed the password with a token that is still in the
\* cache
ResetTokenStillStored ==
    /\ last.op = "verify_password_reset"
    /\ last.outcome = "true"
    /\ last.new_password = "bad"
    /\ VerifyPassword(users["u1"], "bad")
    /\ StoredReset(last.token) # None

\* a reset with an expired token has just been refused
ResetRefusedExpired ==
    /\ last.op = "verify_password_reset"
    /\ last.outcome = "ValidationError"
    /\ TokenKey("password_reset", last.token) \in DOMAIN cache
    /\ StoredReset(last.token) = None

(***************************************************************************)
(* Tenant resolution (TenantMiddleware.resolve_tenant).  A Host header is  *)
(* the sequence of its labels between dots and a path the sequence of its  *)
(* segments between slashes, as split(".") and strip("/").split("/") give  *)
(* them.                                                                   *)
(***************************************************************************)
\* the rows of table tenants: t1 and t3 can be used, t2 is inactive and t4
\* is suspended
TenantTable ==
    [ t \in {"t1", "t2", "t3", "t4"} |->
        [ subdomain    |-> CASE t = "t1" -> "acme" [] t = "t2" -> "old"
                             [] t = "t3" -> "beta" [] t = "t4" -> "susp",
          is_active    |-> t # "t2",
          is_suspended |-> t = "t4",
          schema_name  |-> CASE t = "t1" -> "s_acme" [] t = "t2" -> "s_old"
                             [] t = "t3" -> "s_beta" [] t = "t4" -> "s_susp" ] ]

\* the query of get_tenant_by_subdomain without its status filter
GetTenantBySubdomainAny(subdomain, fault) ==
    LET ids == { t \in DOMAIN TenantTable :
                    TenantTable[t].subdomain = subdomain }
    IN  IF fault \/ ids = {} THEN None ELSE Some(CHOOSE t \in ids : TRUE)

\* TenantMiddleware.get_tenant_by_subdomain: None when no active tenant that
\* is not suspended has the subdomain, and when the query raises
GetTenantBySubdomain(subdomain, fault) ==
    LET ids == { t \in DOMAIN TenantTable :
                    /\ TenantTable[t].subdomain = subdomain
                    /\ TenantTable[t].is_active
                    /\ ~TenantTable[t].is_suspended }
    IN  IF fault \/ ids = {} THEN None ELSE Some(CHOOSE t \in ids : TRUE)

\* TenantMiddleware.get_tenant_by_id
GetTenantById(tenant_id, fault) ==
    IF /\ ~fault
       /\ tenant_id \in DOMAIN TenantTable
       /\ TenantTable[tenant_id].is_active
       /\ ~TenantTable[tenant_id].is_suspended
    THEN Some(tenant_id)
    ELSE None

\* the dictionary resolve_tenant returns for a tenant row
TenantInfo(t) ==
    [ tenant_id |-> t, tenant |-> Some(t),
      schema_name |-> TenantTable[t].schema_name ]

DefaultTenantInfo ==
    [ tenant_id |-> "default", tenant |-> None, schema_name |-> "public" ]

\* first labels for which host.startswith("localhost") is true
LocalhostLabels == {"localhost", "localhost:8000"}

\* "." in host, host.split(".")[0], host.startswith("localhost")
HasDot(host) == Len(host) > 1
FirstLabel(host) == host[1]
StartsWithLocalhost(host) == FirstLabel(host) \in LocalhostLabels

\* whether each method looks a tenant up for the request
UsesSubdomain(host) ==
    HasDot(host) /\ FirstLabel(host) # "" /\ FirstLabel(host) # "www"
UsesHeader(tenant_header) == tenant_header # None /\ tenant_header # Some("")
UsesPath(path_parts) == Len(path_parts) > 1 /\ path_parts[1] = "tenant"

\* resolve_tenant with the X-Tenant-ID header consulted before the subdomain
ResolveTenantHeaderFirst(host, tenant_header, path_parts, faults) ==
    LET m1 == IF UsesSubdomain(host)
              THEN GetTenantBySubdomain(FirstLabel(host), faults.subdomain)
              ELSE None
        m2 == IF UsesHeader(tenant_header)
              THEN GetTenantById(tenant_header[1], faults.header)
              ELSE None
        m3 == IF UsesPath(path_parts)
              THEN GetTenantBySubdomain(path_parts[2], faults.path)
              ELSE None
    IN  IF m2 # None
        THEN [ result |-> Some(TenantInfo(m2[1])), consulted |-> << "header" >> ]
        ELSE IF m1 # None
        THEN [ result |-> Some(TenantInfo(m1[1])),
               consulted |-> << "header", "subdomain" >> ]
        ELSE IF m3 # None
        THEN [ result |-> Some(TenantInfo(m3[1])),
               consulted |-> << "header", "subdomain", "path" >> ]
        ELSE [ result |-> IF StartsWithLocalhost(host)
                          THEN Some(DefaultTenantInfo) ELSE None,
               consulted |-> << "header", "subdomain", "path", "default" >> ]

\* TenantMiddleware.resolve_tenant; consulted lists the methods it reached
ResolveTenant(host, tenant_header, path_parts, faults) ==
    LET m1 == IF UsesSubdomain(host)
              THEN GetTenantBySubdomain(FirstLabel(host), faults.subdomain)
              ELSE None
        m2 == IF UsesHeader(tenant_header)
              THEN GetTenantById(tenant_header[1], faults.header)
              ELSE None
        m3 == IF UsesPath(path_parts)
              THEN GetTenantBySubdomain(path_parts[2], faults.path)
              ELSE None
    IN  IF m1 # None
        THEN [ result |-> Some(TenantInfo(m1[1])),
               consulted |-> << "subdomain" >> ]
        ELSE IF m2 # None
        THEN [ result |-> Some(TenantInfo(m2[1])),
               consulted |-> << "subdomain", "header" >> ]
        ELSE IF m3 # None
        THEN [ result |-> Some(TenantInfo(m3[1])),
               consulted |-> << "subdomain", "header", "path" >> ]
        ELSE [ result |-> IF StartsWithLocalhost(host)
                          THEN Some(DefaultTenantInfo) ELSE None,
               consulted |-> << "subdomain", "header", "path", "default" >> ]

(***************************************************************************)
(* SpecTenant: requests resolved one after the other against TenantTable.  *)
(***************************************************************************)
Hosts ==
    { << "acme", "example", "com" >>, << "susp", "example", "com" >>,
      << "old", "example", "com" >>, << "www", "example", "com" >>,
      << "localhost:8000" >>, << "" >> }
TenantHeaders == { None, Some("t3"), Some("t4"), Some("t2"), Some("nope") }
Paths ==
    { << "api", "items" >>, << "tenant", "beta" >>, << "tenant", "susp" >>,
      << "tenant", "t3" >>, << "tenant" >> }
LookupFaults ==
    [ subdomain : BOOLEAN, header : BOOLEAN, path : BOOLEAN ]

ResolveTenantCall(host, tenant_header, path_parts, faults) ==
    LET r == ResolveTenant(host, tenant_header, path_parts, faults)
    IN  /\ last' = [ op |-> "resolve_tenant", host |-> host,
                     tenant_header |-> tenant_header,
                     path_parts |-> path_parts, faults |-> faults,
                     result |-> r.result, consulted |-> r.consulted ]
        /\ UNCHANGED << clockVars, users, magicVars, tokenVars, totpVars,
                        mismatches, oauthVars >>

NextTenant ==
    \E host \in Hosts, tenant_header \in TenantHeaders, path_parts \in Paths,
       faults \in LookupFaults :
        ResolveTenantCall(host, tenant_header, path_parts, faults)

SpecTenant == InitRedeem /\ [][NextTenant]_vars

\* the rows a request may be served for
Usable == { t \in DOMAIN TenantTable :
              TenantTable[t].is_active /\ ~TenantTable[t].is_suspended }

\* the tenant each method of the last request yields, if it is reached:
\* the usable row the value names, unless the lookup failed in storage
YieldOf(method) ==
    LET named ==
          CASE method = "subdomain" ->
                 IF UsesSubdomain(last.host)
                 THEN { t \in Usable :
                          TenantTable[t].subdomain = FirstLabel(last.host) }
                 ELSE {}
            [] method = "header" ->
                 IF last.tenant_header = None THEN {}
                 ELSE { t \in Usable : t = last.tenant_header[1] }
            [] method = "path" ->
                 IF UsesPath(last.path_parts)
                 THEN { t \in Usable :
                          TenantTable[t].subdomain = last.path_parts[2] }
                 ELSE {}
    IN  IF last.faults[method] THEN {} ELSE named

Methods == << "subdomain", "header", "path" >>

\* C27: resolve_tenant tries the subdomain, then the X-Tenant-ID header,
\* then the /tenant/ path segment, then the default: the result is the
\* tenant of the first method that yields one (the subdomain's tenant even
\* when header or path name another usable tenant), a method is consulted
\* only when every earlier one yielded no tenant, and the result is no
\* tenant only when no method yields one and the default does not apply.
C27_ResolutionOrder ==
    last.op = "resolve_tenant" =>
        /\ \A i \in 1..3 :
              ( /\ YieldOf(Methods[i]) # {}
                /\ \A j \in 1..(i - 1) : YieldOf(Methods[j]) = {} ) =>
                  /\ last.result # None
                  /\ last.result[1].tenant_id \in YieldOf(Methods[i])
                  /\ last.result[1].tenant = Some(last.result[1].tenant_id)
                  /\ Len(last.consulted) = i
        /\ \A k \in 1..Len(last.consulted) :
              \A j \in 1..(k - 1) : j <= 3 => YieldOf(Methods[j]) = {}
        /\ last.result = None =>
              /\ \A i \in 1..3 : YieldOf(Methods[i]) = {}
              /\ ~StartsWithLocalhost(last.host)
        /\ ( /\ \A i \in 1..3 : YieldOf(Methods[i]) = {}
             /\ StartsWithLocalhost(last.host) ) =>
               last.result = Some(DefaultTenantInfo)

\* the subdomain named usable tenant t1 while header and path named usable
\* tenant t3, and the request was resolved to t1
C27_Witness ==
    /\ last.op = "resolve_tenant"
    /\ YieldOf("subdomain") = {"t1"}
    /\ YieldOf("header") = {"t3"}
    /\ YieldOf("path") = {"t3"}
    /\ last.result = Some(TenantInfo("t1"))

\* C28: resolve_tenant never returns a suspended or inactive tenant: a
\* value that names such a tenant, or whose lookup fails in storage, counts
\* as unresolved, and a request that names only such tenants gets no tenant
\* context unless the default applies.
C28_OnlyUsableTenants ==
    last.op = "resolve_tenant" =>
        /\ \A t \in DOMAIN TenantTable :
              (last.result # None /\ last.result[1].tenant = Some(t)) =>
                  /\ TenantTable[t].is_active
                  /\ ~TenantTable[t].is_suspended
        /\ ( /\ UsesSubdomain(last.host) =>
                  \/ last.faults.subdomain
                  \/ \A t \in DOMAIN TenantTable :
                        TenantTable[t].subdomain = FirstLabel(last.host)
                            => t \notin Usable
             /\ last.tenant_header # None =>
                  \/ last.faults.header
                  \/ last.tenant_header[1] \notin Usable
             /\ UsesPath(last.path_parts) =>
                  \/ last.faults.path
                  \/ \A t \in DOMAIN TenantTable :
                        TenantTable[t].subdomain = last.path_parts[2]
                            => t \notin Usable ) =>
               last.result = IF StartsWithLocalhost(last.host)
                             THEN Some(DefaultTenantInfo) ELSE None

\* a request that named the suspended tenant by subdomain and by path and
\* the inactive one by header got no tenant context
C28_Witness ==
    /\ last.op = "resolve_tenant"
    /\ last.host = << "susp", "example", "com" >>
    /\ last.tenant_header = Some("t2")
    /\ last.path_parts = << "tenant", "susp" >>
    /\ last.faults = [ subdomain |-> FALSE, header |-> FALSE, path |-> FALSE ]
    /\ last.result = None
\* a request whose path segment is the id of usable tenant t3, and which
\* names no other tenant, got no tenant context: the segment is looked up
\* as a subdomain
PathIdNotResolved ==
    /\ last.op = "resolve_tenant"
    /\ last.path_parts = << "tenant", "t3" >>
    /\ last.tenant_header = None
    /\ last.host = << "www", "example", "com" >>
    /\ last.faults = [ subdomain |-> FALSE, header |-> FALSE, path |-> FALSE ]
    /\ last.result = None

(***************************************************************************)
(* Rate limiting (RateLimitMiddleware, EndpointRateLimiter).  Counters are *)
(* cache entries; a key is the sequence of the fields its f-string joins.  *)
(***************************************************************************)
\* a key set by INCRBY has no expiry until EXPIRE is called on it
NoExpiry == 1000000

\* auth_rate_limit = EndpointRateLimiter(requests=10, window=60)
ENDPOINT_WINDOW == 60

\* RedisCache.increment: INCRBY key 1; nothing happens on an error
CacheIncrement(c, key, fault, t) ==
    IF fault THEN c
    ELSE IF key \in DOMAIN c /\ c[key].expires_at > t
    THEN [ c EXCEPT ![key].value = @ + 1 ]
    ELSE [ k \in DOMAIN c \cup {key} |->
             IF k = key THEN [ value |-> 1, expires_at |-> NoExpiry ]
             ELSE c[k] ]

\* RedisCache.expire: EXPIRE key seconds
CacheExpire(c, key, seconds, fault, t) ==
    IF fault \/ key \notin DOMAIN c \/ c[key].expires_at <= t THEN c
    ELSE [ c EXCEPT ![key].expires_at = t + seconds ]

\* get_client_identifier: authenticated user > forwarded IP > client IP
GetClientIdentifier(request) ==
    IF request.current_user # None
    THEN << "user", request.current_user[1] >>
    ELSE IF request.forwarded_for # << >>
    THEN << "ip", request.forwarded_for[1] >>
    ELSE IF request.client # None
    THEN << "ip", request.client[1] >>
    ELSE << "ip", "unknown" >>

\* f"rate_limit:{client_id}:{int(time.time() // self.window_seconds)}"
RateLimitKey(client_id, t) ==
    << "rate_limit", client_id, t \div RATE_LIMIT_WINDOW >>

\* f"endpoint_rate:{client_id}:{endpoint}:{int(time.time() // self.window)}"
EndpointRateKey(client_id, endpoint, t) ==
    << "endpoint_rate", client_id, endpoint, t \div ENDPOINT_WINDOW >>

\* the body shared by check_rate_limit and check_endpoint_rate_limit
CheckKey(c, rate_key, requests, window, faults, t) ==
    LET got == CacheGet(c, rate_key, faults.get, t)
        current_count == IF got = None THEN 0 ELSE got[1]
    IN  IF current_count >= requests
        THEN [ cache |-> c, admitted |-> FALSE ]
        ELSE [ cache |-> CacheExpire(
                            CacheIncrement(c, rate_key, faults.increment, t),
                            rate_key, window, faults.expire, t),
               admitted |-> TRUE ]

\* a limiter that rejects the request when the counter store fails
CheckRateLimitFailClosed(c, request, faults, t) ==
    IF faults.get \/ faults.increment \/ faults.expire
    THEN [ cache |-> c, admitted |-> FALSE ]
    ELSE CheckKey(c, RateLimitKey(GetClientIdentifier(request), t),
                  RequestsPerWindow, RATE_LIMIT_WINDOW, faults, t)

\* a limiter that compares with ">" and so admits one request more
CheckRateLimitLate(c, request, faults, t) ==
    LET rate_key == RateLimitKey(GetClientIdentifier(request), t)
        got == CacheGet(c, rate_key, faults.get, t)
        current_count == IF got = None THEN 0 ELSE got[1]
    IN  IF current_count > RequestsPerWindow
        THEN [ cache |-> c, admitted |-> FALSE ]
        ELSE [ cache |-> CacheExpire(
                            CacheIncrement(c, rate_key, faults.increment, t),
                            rate_key, RATE_LIMIT_WINDOW, faults.expire, t),
               admitted |-> TRUE ]

\* RateLimitMiddleware.check_rate_limit
CheckRateLimit(c, request, faults, t) ==
    CheckKey(c, RateLimitKey(GetClientIdentifier(request), t),
             RequestsPerWindow, RATE_LIMIT_WINDOW, faults, t)

\* EndpointRateLimiter.check_endpoint_rate_limit
CheckEndpointRateLimit(c, request, faults, t) ==
    CheckKey(c, EndpointRateKey(GetClientIdentifier(request), request.path, t),
             RequestsPerWindow, ENDPOINT_WINDOW, faults, t)

(***************************************************************************)
(* SpecRate: the requests of one client to one endpoint, checked by both   *)
(* limiters over consecutive windows while the counter store may fail.     *)
(* SpecWindows: the requests of two clients to two endpoints, with a store *)
(* that works.                                                             *)
(***************************************************************************)
RateClients ==
    { [ current_user |-> Some("u1"), forwarded_for |-> << >>,
        client |-> Some("10.0.0.1") ],
      [ current_user |-> None, forwarded_for |-> << "9.9.9.9", "10.0.0.1" >>,
        client |-> Some("10.0.0.1") ] }
Endpoints == {"/a", "/b"}
RateRequests ==
    { [ current_user |-> r.current_user, forwarded_for |-> r.forwarded_for,
        client |-> r.client, path |-> e ] : r \in RateClients, e \in Endpoints }

\* the request of SpecRate: no user, no X-Forwarded-For
DirectRequest ==
    [ current_user |-> None, forwarded_for |-> << >>,
      client |-> Some("10.0.0.1"), path |-> "/a" ]

\* at most one cache operation of a call fails
NoRateFaults == [ get |-> FALSE, increment |-> FALSE, expire |-> FALSE ]
RateFaults ==
    { NoRateFaults } \cup
    { [ NoRateFaults EXCEPT ![op] = TRUE ] :
        op \in {"get", "increment", "expire"} }

\* how many requests of a (limiter, client, endpoint, window) were admitted
\* in the current window, counted up to RequestsPerWindow
Served(l) == IF "served" \in DOMAIN l THEN l.served ELSE << >>
ServedCount(l, q) == IF q \in DOMAIN Served(l) THEN Served(l)[q] ELSE 0
Serve(l, q, admitted) ==
    LET n == ServedCount(l, q)
        kept == { k \in DOMAIN Served(l) : k[4] = q[4] }
    IN  [ k \in (IF admitted THEN kept \cup {q} ELSE kept) |->
            IF k = q /\ admitted /\ n < RequestsPerWindow THEN n + 1
            ELSE Served(l)[k] ]

\* the stored value of a counter
CountOf(c, rate_key, t) ==
    LET got == CacheGet(c, rate_key, FALSE, t)
    IN  IF got = None THEN 0 ELSE got[1]

RateStep(op, request, rate_key, window, faults, r) ==
    LET q == << op, GetClientIdentifier(request), request.path,
                now \div window >>
    IN  /\ CountOf(cache, rate_key, now) <= RequestsPerWindow
        /\ cache' = r.cache
        /\ last' = [ op |-> op, request |-> request, rate_key |-> rate_key,
                     counter |-> q, faults |-> faults,
                     admitted |-> r.admitted,
                     served |-> Serve(last, q, r.admitted) ]
        /\ UNCHANGED << clockVars, users, outbox, tokenSeq, proc, returned,
                        tokenVars, totpVars, mismatches, oauthVars >>

CheckRateLimitCall(request, faults) ==
    RateStep("check_rate_limit", request,
             RateLimitKey(GetClientIdentifier(request), now),
             RATE_LIMIT_WINDOW, faults,
             CheckRateLimit(cache, request, faults, now))

CheckEndpointRateLimitCall(request, faults) ==
    RateStep("check_endpoint_rate_limit", request,
             EndpointRateKey(GetClientIdentifier(request), request.path, now),
             ENDPOINT_WINDOW, faults,
             CheckEndpointRateLimit(cache, request, faults, now))

\* the next window begins.  Redis drops the counters whose time has run
\* out; a counter left without expiry by a failed EXPIRE stays in Redis but
\* is never read again, the window index being part of its key, and is
\* left out of the state as well.
TickRate ==
    /\ Tick(RATE_LIMIT_WINDOW)
    /\ cache' = [ k \in { j \in DOMAIN cache :
                            j[Len(j)] = now' \div RATE_LIMIT_WINDOW }
                    |-> cache[k] ]
    /\ UNCHANGED << users, outbox, tokenSeq, proc, returned, last, tokenVars,
                    totpVars, mismatches, oauthVars >>

NextRate ==
    \/ \E faults \in RateFaults : CheckRateLimitCall(DirectRequest, faults)
    \/ \E faults \in RateFaults :
          CheckEndpointRateLimitCall(DirectRequest, faults)
    \/ TickRate

SpecRate == InitRedeem /\ [][NextRate]_vars

NextWindows ==
    \/ \E request \in RateRequests : CheckRateLimitCall(request, NoRateFaults)
    \/ \E request \in RateRequests :
          CheckEndpointRateLimitCall(request, NoRateFaults)
    \/ TickRate

SpecWindows == InitRedeem /\ [][NextWindows]_vars

IsCheck(l) == l.op \in {"check_rate_limit", "check_endpoint_rate_limit"}

\* C29: the rate limiter is fail-open: a request is rejected only when the
\* counter was read without error and already holds the limit; when the
\* get of the call fails the request is admitted, and when the increment or
\* the expire fails the request is admitted as it is without failure.
C29_FailOpen ==
    [][ (IsCheck(last') /\ now' = now /\ last' # last) =>
          LET stored == IF /\ last'.rate_key \in DOMAIN cache
                           /\ cache[last'.rate_key].expires_at > now
                        THEN cache[last'.rate_key].value ELSE 0
          IN  /\ ~last'.admitted =>
                   (~last'.faults.get /\ stored >= RequestsPerWindow)
              /\ last'.faults.get => last'.admitted
              /\ stored < RequestsPerWindow => last'.admitted
      ]_vars

\* a request was admitted although its counter holds the limit, because the
\* read of the counter failed
C29_Witness ==
    /\ IsCheck(last)
    /\ last.faults.get
    /\ last.admitted
    /\ CountOf(cache, last.rate_key, now) > RequestsPerWindow

\* a request was admitted while the increment of its counter failed
AdmittedWithoutCount ==
    /\ IsCheck(last)
    /\ last.faults.increment
    /\ last.admitted
    /\ CountOf(cache, last.rate_key, now) < ServedCount(last, last.counter)

\* C30: counters are keyed by (client, endpoint, window index): two
\* requests that differ in client, endpoint or window never use the same
\* counter, so a request is rejected only after RequestsPerWindow requests
\* of its own client to its own endpoint were admitted in its own window,
\* and the first request of a client to an endpoint in a window is
\* admitted.
C30_CounterPerEndpoint ==
    [][ (IsCheck(last') /\ now' = now /\ last' # last) =>
          /\ (IsCheck(last) /\ last.op = last'.op
                /\ last.counter # last'.counter) =>
                  last.rate_key # last'.rate_key
          /\ ~last'.admitted =>
                ServedCount(last, last'.counter) >= RequestsPerWindow
          /\ ServedCount(last, last'.counter) = 0 => last'.admitted
      ]_vars

\* the same for check_endpoint_rate_limit alone
EndpointCounterPerEndpoint ==
    [][ (last'.op = "check_endpoint_rate_limit" /\ now' = now /\ last' # last)
          =>
          /\ (last.op = last'.op /\ last.counter # last'.counter) =>
                last.rate_key # last'.rate_key
          /\ ~last'.admitted =>
                ServedCount(last, last'.counter) >= RequestsPerWindow
          /\ ServedCount(last, last'.counter) = 0 => last'.admitted
      ]_vars

\* the counter of check_rate_limit is one per client and window: a request
\* is rejected only after RequestsPerWindow requests of its client, to any
\* endpoint, were admitted in its window
RateCounterPerClient ==
    [][ (last'.op = "check_rate_limit" /\ now' = now /\ last' # last) =>
          LET mine == { k \in DOMAIN Served(last) :
                          /\ k[1] = "check_rate_limit"
                          /\ k[2] = last'.counter[2]
                          /\ k[4] = last'.counter[4] }
          IN  /\ ~last'.admitted => mine # {}
              /\ mine = {} => last'.admitted
      ]_vars

\* check_rate_limit has just rejected a request to an endpoint the client
\* had not called in this window
RejectedOnOtherEndpoint ==
    /\ last.op = "check_rate_limit"
    /\ ~last.admitted
    /\ ServedCount(last, last.counter) = 0

\* in a window after the first, the first request of a client to an
\* endpoint was admitted while other counters of the window are in use
AdmittedInNextWindow ==
    /\ IsCheck(last)
    /\ last.admitted
    /\ last.counter[4] > 0
    /\ ServedCount(last, last.counter) = 1
    /\ \E k \in DOMAIN cache : k[Len(k)] = last.counter[4]

(***************************************************************************)
(* SpecMutate: credential mutations (logout, logout of all sessions,       *)
(* change of password) while the database may fail in a query or a commit. *)
(***************************************************************************)
\* where the database fails during one call, if it does
StorageFaults == {"none", "lookup", "commit"}

\* AuthService.revoke_token with its try/except: an exception of the
\* query or of the commit is logged and answered with False
RevokeTokenGuarded(tokens, refresh_token, user_id, fault, t) ==
    LET r == RevokeToken(tokens, refresh_token, user_id, t)
    IN  IF fault = "lookup" \/ (fault = "commit" /\ r.result)
        THEN [ tokens |-> tokens, result |-> FALSE, raised |-> FALSE,
               failed |-> TRUE ]
        ELSE [ tokens |-> r.tokens, result |-> r.result, raised |-> FALSE,
               failed |-> FALSE ]

\* AuthService.revoke_all_user_tokens with its try/except: an exception is
\* logged and answered with 0
RevokeAllGuarded(tokens, user_id, fault, t) ==
    LET r == RevokeAllUserTokens(tokens, user_id, t)
    IN  IF fault # "none"
        THEN [ tokens |-> tokens, result |-> 0, raised |-> FALSE,
               failed |-> TRUE ]
        ELSE [ tokens |-> r.tokens, result |-> r.result, raised |-> FALSE,
               failed |-> FALSE ]

\* endpoint change_password; pwfault says whether the commit of the new
\* hash fails, fault where revoke_all_user_tokens fails.  The HTTPException
\* of a wrong current password is caught by "except Exception" as well.
ChangePassword(tokens, us, u, current_password, new_password, pwfault, fault, t) ==
    IF ~VerifyPassword(us[u], current_password) \/ pwfault
    THEN [ tokens |-> tokens, users |-> us, status |-> 500 ]
    ELSE [ tokens |-> RevokeAllGuarded(tokens, u, fault, t).tokens,
           users |-> [ us EXCEPT ![u].hashed_password =
                                     Some(HashPassword(new_password)) ],
           status |-> 200 ]

\* endpoint logout: the result of revoke_token is not looked at
Logout(tokens, refresh_token, u, fault, t) ==
    [ tokens |-> RevokeTokenGuarded(tokens, refresh_token, u, fault, t).tokens,
      status |-> 200 ]

\* the refresh tokens of u that refresh_access_token would accept
ValidRowsOf(tokens, u, t) ==
    { r \in DOMAIN tokens :
        r.user_id = u /\ r.token_type = "refresh" /\ IsValid(r, t) }

RevokeTokenGuardedCall(raw, u, fault) ==
    LET r == RevokeTokenGuarded(auth_tokens, raw, u, fault, now)
    IN  /\ auth_tokens' = r.tokens
        /\ last' = [ op |-> "revoke_token", token |-> raw, user |-> u,
                     fault |-> fault, failed |-> r.failed,
                     raised |-> r.raised, result |-> r.result ]
        /\ UNCHANGED << clockVars, users, issued, revokedRaw, loggedOut,
                        othersTokens >>

RevokeAllGuardedCall(u, fault) ==
    LET r == RevokeAllGuarded(auth_tokens, u, fault, now)
    IN  /\ auth_tokens' = r.tokens
        /\ last' = [ op |-> "revoke_all_user_tokens", user |-> u,
                     fault |-> fault, failed |-> r.failed,
                     raised |-> r.raised, result |-> r.result ]
        /\ UNCHANGED << clockVars, users, issued, revokedRaw, loggedOut,
                        othersTokens >>

LogoutCall(raw, u, fault) ==
    LET r == Logout(auth_tokens, raw, u, fault, now)
    IN  /\ auth_tokens' = r.tokens
        /\ last' = [ op |-> "logout", token |-> raw, user |-> u,
                     fault |-> fault, status |-> r.status ]
        /\ UNCHANGED << clockVars, users, issued, revokedRaw, loggedOut,
                        othersTokens >>

ChangePasswordCall(u, current_password, new_password, pwfault, fault) ==
    LET r == ChangePassword(auth_tokens, users, u, current_password,
                            new_password, pwfault, fault, now)
    IN  /\ auth_tokens' = r.tokens
        /\ users' = r.users
        /\ last' = [ op |-> "change_password", user |-> u,
                     current_password |-> current_password,
                     new_password |-> new_password, pwfault |-> pwfault,
                     fault |-> fault, status |-> r.status ]
        /\ UNCHANGED << clockVars, issued, revokedRaw, loggedOut,
                        othersTokens >>

NextMutate ==
    \/ \E u \in DOMAIN users : CreateTokensCall(u)
    \/ \E raw \in RawTokens, u \in DOMAIN users, fault \in StorageFaults :
          RevokeTokenGuardedCall(raw, u, fault)
    \/ \E u \in DOMAIN users, fault \in StorageFaults :
          RevokeAllGuardedCall(u, fault)
    \/ \E raw \in RawTokens, fault \in StorageFaults :
          LogoutCall(raw, "u1", fault)
    \/ \E current_password \in Passwords, new_password \in Passwords,
          pwfault \in BOOLEAN, fault \in StorageFaults :
          ChangePasswordCall("u1", current_password, new_password, pwfault,
                             fault)
    \/ TokensTick

SpecMutate == InitTokenSpec /\ [][NextMutate]_vars

\* C31: a storage failure inside a credential mutation is surfaced as a
\* failure: revoke_token and revoke_all_user_tokens raise instead of
\* returning a result when their query or commit fails, and change_password
\* never answers 200 with the password changed while a refresh token of the
\* principal that was valid before is still valid.
C31_NoPartialSuccess ==
    [][ /\ (last'.op \in {"revoke_token", "revoke_all_user_tokens"}
              /\ last' # last /\ last'.failed) => last'.raised
        /\ (last'.op = "change_password" /\ last' # last
              /\ last'.status = 200) =>
              ValidRowsOf(auth_tokens', last'.user, now)
                  \cap ValidRowsOf(auth_tokens, last'.user, now) = {}
      ]_vars

\* when the database does not fail, a change of password that answers 200
\* has stored the new hash and left no refresh token of the principal
\* valid, and one that answers 500 has changed nothing
ChangePasswordWithoutFault ==
    [][ (last'.op = "change_password" /\ last' # last
           /\ ~last'.pwfault /\ last'.fault = "none") =>
          IF last'.status = 200
          THEN /\ VerifyPassword(users'[last'.user], last'.new_password)
               /\ ValidRowsOf(auth_tokens', last'.user, now) = {}
          ELSE /\ users' = users
               /\ auth_tokens' = auth_tokens
      ]_vars

\* change_password has answered 200 and the new password is stored, while a
\* refresh token issued before is still valid
PasswordChangedTokensLive ==
    /\ last.op = "change_password"
    /\ last.status = 200
    /\ last.current_password = "good"
    /\ last.new_password = "bad"
    /\ VerifyPassword(users["u1"], "bad")
    /\ ValidRowsOf(auth_tokens, "u1", now) # {}

(***************************************************************************)
(* SpecRace: authenticate_user calls with a wrong password for a@x.com     *)
(* that overlap.  Each call has its own session: it loads the User row,    *)
(* computes the new values on its copy, and its commit writes them with    *)
(* UPDATE users SET failed_login_attempts = <value>, ...                   *)
(***************************************************************************)
\* first half of authenticate_user: load the row, test the lock, compare
\* the password, change the loaded copy
AuthLoad(w, password) ==
    LET u == "u1"
        user == users[u]
    IN  /\ proc[w].pc = "idle"
        /\ mismatches[u].n < LOCKOUT_THRESHOLD + 1
        /\ ~VerifyPassword(user, password)
        /\ IF IsLocked(user, now)
           THEN /\ proc' = proc
                /\ last' = [ op |-> "authenticate_user", worker |-> w,
                             error |-> "Account is temporarily locked" ]
           ELSE /\ proc' = [ proc EXCEPT ![w] =
                               [ pc |-> "commit", user_id |-> u,
                                 row |-> RecordMismatch(user, now) ] ]
                /\ last' = last
        /\ UNCHANGED << clockVars, users, mismatches, cache, outbox, tokenSeq,
                        returned, tokenVars, totpVars, oauthVars >>

\* second half: await self.db.commit() writes the changed attributes of
\* the copy, then AuthenticationError("Invalid credentials") is raised
AuthCommit(w) ==
    /\ proc[w].pc = "commit"
    /\ LET u == proc[w].user_id
           row == proc[w].row
       IN  /\ users' = [ users EXCEPT
                           ![u].failed_login_attempts =
                               row.failed_login_attempts,
                           ![u].locked_until =
                               IF row.locked_until # None
                               THEN row.locked_until ELSE @ ]
           /\ mismatches' = [ mismatches EXCEPT ![u].n = @ + 1 ]
           /\ last' = [ op |-> "authenticate_user", worker |-> w,
                        error |-> "Invalid credentials" ]
    /\ proc' = [ proc EXCEPT ![w] = [ pc |-> "idle" ] ]
    /\ UNCHANGED << clockVars, cache, outbox, tokenSeq, returned, tokenVars,
                    totpVars, oauthVars >>

NextRace ==
    \/ \E w \in Workers : AuthLoad(w, "bad")
    \/ \E w \in Workers : AuthCommit(w)

SpecRace == InitRedeem /\ [][NextRace]_vars

\* C32: overlapping failed logins lose no update: when no call is under
\* way, failed_login_attempts is the number of calls that ended in a
\* password mismatch, and once five have, the account is locked.
C32_NoLostUpdate ==
    (\A w \in Workers : proc[w].pc = "idle") =>
        /\ users["u1"].failed_login_attempts = mismatches["u1"].n
        /\ mismatches["u1"].n >= LOCKOUT_THRESHOLD =>
              users["u1"].locked_until # None

\* the same of calls that do not overlap: a call that loads the row while
\* no other call is under way and commits next counts one more
SequentialCount ==
    [][ (\E w \in Workers :
            /\ proc[w].pc = "commit" /\ proc'[w].pc = "idle"
            /\ proc[w].row.failed_login_attempts
                 = users["u1"].failed_login_attempts + 1) =>
          /\ users'["u1"].failed_login_attempts
               = users["u1"].failed_login_attempts + 1
          /\ users'["u1"].failed_login_attempts >= LOCKOUT_THRESHOLD =>
               users'["u1"].locked_until = Some(now + LOCKOUT_SECONDS)
      ]_vars

\* five calls with a wrong password have ended and the account is not locked
FiveMismatchesNoLock ==
    /\ \A w \in Workers : proc[w].pc = "idle"
    /\ mismatches["u1"].n = LOCKOUT_THRESHOLD
    /\ users["u1"].locked_until = None
    /\ users["u1"].failed_login_attempts < LOCKOUT_THRESHOLD

(***************************************************************************)
(* SpecBackup: two verify_2fa_login calls for u1, whose 2FA is Enabled,    *)
(* that may overlap.  Each call has its own session: it loads the row,     *)
(* works on its copy and commits.                                          *)
(***************************************************************************)
\* the backup-code branch of verify_2fa_login as it would be with
\* datetime bound: the copy gets the shortened list and is committed
BackupPathRepaired(row, updated_codes, t) ==
    [ raises |-> FALSE,
      row |-> [ row EXCEPT !.backup_codes = Encrypt(updated_codes),
                           !.last_used_at = Some(t) ] ]

\* the backup-code branch of verify_2fa_login (lines 205-213): the copy gets
\* the shortened list, then datetime.utcnow() raises UnboundLocalError,
\* datetime being a local name of the function (line 198), and nothing is
\* committed
BackupPath(row, updated_codes, t) ==
    [ raises |-> TRUE,
      row |-> [ row EXCEPT !.backup_codes = Encrypt(updated_codes) ] ]

Other(w) == CHOOSE v \in Workers : v # w

\* result = await self.db.execute(select(TwoFactorAuth)...)
LoginLoad(w, code) ==
    /\ proc[w].pc = "idle"
    /\ proc' = [ proc EXCEPT ![w] =
                   IF Is2FAEnabled(two_factor, "u1")
                   THEN [ pc |-> "loaded", code |-> code,
                          row |-> two_factor["u1"][1],
                          overlap |-> proc[Other(w)].pc \in {"loaded", "commit"} ]
                   ELSE [ pc |-> "done", code |-> code, outcome |-> "false",
                          overlap |-> FALSE ] ]
    /\ UNCHANGED << clockVars, users, mismatches, cache, outbox, tokenSeq,
                    returned, tokenVars, totpVars, oauthVars, last >>

\* lines 191-213 up to the commit or the exception
LoginCompute(w) ==
    /\ proc[w].pc = "loaded"
    /\ LET p == proc[w]
           backup == VerifyBackupCode(Decrypt(p.row.backup_codes), p.code)
           b == BackupPath(p.row, backup[2], now)
           End(outcome) == [ pc |-> "done", code |-> p.code,
                             outcome |-> outcome, overlap |-> p.overlap ]
       IN  proc' = [ proc EXCEPT ![w] =
                IF VerifyTotpCode(Decrypt(p.row.secret_key), p.code, now)
                THEN [ p EXCEPT !.pc = "commit",
                                !.row = [ p.row EXCEPT !.last_used_at = Some(now) ] ]
                ELSE IF ~backup[1] THEN End("false")
                ELSE IF b.raises THEN End("UnboundLocalError")
                ELSE [ p EXCEPT !.pc = "commit", !.row = b.row ] ]
    /\ UNCHANGED << clockVars, users, mismatches, cache, outbox, tokenSeq,
                    returned, tokenVars, totpVars, oauthVars, last >>

\* await self.db.commit(); return True
LoginCommit(w) ==
    /\ proc[w].pc = "commit"
    /\ two_factor' = [ two_factor EXCEPT !["u1"] =
                         Some([ @[1] EXCEPT
                                  !.backup_codes = proc[w].row.backup_codes,
                                  !.last_used_at = proc[w].row.last_used_at ]) ]
    /\ proc' = [ proc EXCEPT ![w] =
                   [ pc |-> "done", code |-> proc[w].code, outcome |-> "true",
                     overlap |-> proc[w].overlap ] ]
    /\ UNCHANGED << clockVars, users, mismatches, cache, outbox, tokenSeq,
                    returned, tokenVars, needsSetup, oauthVars, last >>

InitBackup ==
    /\ now = TOTP_INTERVAL
    /\ ticks = 0
    /\ InitUsers
    /\ InitTokens
    /\ needsSetup = {}
    /\ \E backup_codes \in GenerateBackupCodes :
          two_factor = [ u \in UserIds |->
                           IF u = "u1"
                           THEN Some([ secret_key   |-> Encrypt("SECRETA"),
                                       backup_codes |-> Encrypt(backup_codes),
                                       is_enabled   |-> TRUE,
                                       last_used_at |-> None ])
                           ELSE None ]
    /\ InitMagic
    /\ InitMismatches
    /\ InitLast

NextBackup ==
    \/ \E w \in Workers, code \in CodeInputs(now) : LoginLoad(w, code)
    \/ \E w \in Workers : LoginCompute(w)
    \/ \E w \in Workers : LoginCommit(w)

SpecBackup == InitBackup /\ [][NextBackup]_vars

\* C33: a backup code is never consumed twice: of two verify_2fa_login calls
\* for one principal that present the same backup code, overlapping or not,
\* at most one returns true.
C33_NoDoubleConsume ==
    \A w \in Workers :
        ( /\ proc[w].pc = "done" /\ proc[Other(w)].pc = "done"
          /\ proc[w].code = proc[Other(w)].code
          /\ proc[w].code[1] = "text" ) =>
            ~(proc[w].outcome = "true" /\ proc[Other(w)].outcome = "true")

\* two overlapping calls have presented the same stored backup code and
\* both have ended, neither with true
C33_Witness ==
    /\ \A w \in Workers : proc[w].pc = "done"
    /\ proc["w1"].code = proc["w2"].code
    /\ proc["w1"].code = TextCode("AAAA1111")
    /\ VerifyBackupCode(Decrypt(two_factor["u1"][1].backup_codes),
                        TextCode("AAAA1111"))[1]
    /\ \E w \in Workers : proc[w].overlap
    /\ \A w \in Workers : proc[w].outcome = "UnboundLocalError"

(***************************************************************************)
(* SpecPaths: the four endpoints that call create_tokens (POST /login,     *)
(* POST /login/2fa, GET /magic-link/verify, POST /oauth/{provider}/        *)
(* callback), with the 2FA setup that leads to an enabled second factor.   *)
(***************************************************************************)
\* endpoints/auth.py line 466: the tenant the callback hands on
DEFAULT_TENANT_ID == "default-tenant-id"

\* GET /magic-link/verify: the principal of the link gets a token pair
VerifyMagicLinkEndpoint(c, us, tokens, token, t) ==
    LET r == VerifyMagicLink(c, us, token, t)
    IN  IF r.outcome # "ok"
        THEN [ cache |-> r.cache, tokens |-> tokens, user |-> None,
               response |-> [ status |-> 401, kind |-> "error",
                              detail |-> "Invalid or expired magic link" ] ]
        ELSE LET k == CreateTokens(tokens, us, r.user[1], t)
             IN  [ cache |-> r.cache, tokens |-> k.tokens, user |-> r.user,
                   response |-> [ status |-> 200, kind |-> "tokens",
                                  body |-> k.response ] ]

\* POST /oauth/{provider}/callback from the user info on; only
\* AuthenticationError is handled
OAuthCallback(accounts, us, tokens, provider, access_token, user_info, t) ==
    LET r == AuthenticateWithCode(accounts, us, provider, access_token,
                                  user_info, DEFAULT_TENANT_ID)
    IN  IF r.outcome = "ok"
        THEN LET k == CreateTokens(tokens, r.users, r.user[1], t)
             IN  [ accounts |-> r.accounts, users |-> r.users,
                   tokens |-> k.tokens, user |-> r.user,
                   response |-> [ status |-> 200, kind |-> "tokens",
                                  body |-> k.response ] ]
        ELSE [ accounts |-> r.accounts, users |-> r.users, tokens |-> tokens,
               user |-> None,
               response |-> [ status |-> IF r.outcome = "AuthenticationError"
                                         THEN 401 ELSE 500,
                              kind |-> "error", detail |-> r.outcome ] ]

VerifyMagicLinkEndpointCall(token) ==
    LET r == VerifyMagicLinkEndpoint(cache, users, auth_tokens, token, now)
    IN  /\ r.response.kind = "tokens" => BagCardinality(auth_tokens) < MaxTokens
        /\ cache' = r.cache
        /\ auth_tokens' = r.tokens
        /\ issued' = issued \cup Handed(r.response)
        /\ last' = [ op |-> "verify_magic_link_endpoint", token |-> token,
                     user |-> r.user,
                     had2FA |-> r.user # None
                                  /\ Is2FAEnabled(two_factor, r.user[1]),
                     response |-> r.response ]
        /\ UNCHANGED << clockVars, users, revokedRaw, loggedOut, totpVars,
                        mismatches, outbox, tokenSeq, proc, returned,
                        oauthVars >>

OAuthCallbackCall(provider, access_token, id, email) ==
    LET user_info == [ id |-> id, email |-> email ]
        r == OAuthCallback(oauth_accounts, users, auth_tokens, provider,
                           access_token, user_info, now)
    IN  /\ r.response.kind = "tokens" => BagCardinality(auth_tokens) < MaxTokens
        /\ oauth_accounts' = r.accounts
        /\ users' = r.users
        /\ auth_tokens' = r.tokens
        /\ issued' = issued \cup Handed(r.response)
        /\ last' = [ op |-> "oauth_callback", provider |-> provider,
                     user_info |-> user_info, user |-> r.user,
                     had2FA |-> r.user # None
                                  /\ Is2FAEnabled(two_factor, r.user[1]),
                     response |-> r.response ]
        /\ UNCHANGED << clockVars, revokedRaw, loggedOut, totpVars,
                        mismatches, magicVars, resolved >>

NextPaths ==
    \/ \E password \in Passwords : LoginCall("a@x.com", password)
    \/ \E password \in Passwords, code \in LoginCodes(now) :
          LoginWith2FACall("a@x.com", password, code)
    \/ Setup2FACall("u1")
    \/ \E code \in LoginCodes(now) : Verify2FASetupCall("u1", code)
    \/ (tokenSeq < MaxLinks /\ IssueMagicLink(FALSE))
    \/ \E token \in Presentable : VerifyMagicLinkEndpointCall(token)
    \/ \E id \in FedIds, email \in { Some("a@x.com"), Some("c@x.com") } :
          OAuthCallbackCall("google", "at1", id, email)

SpecPaths == InitLogin /\ [][NextPaths]_vars

\* the principals whose auth_tokens rows a step added
GainedTokens ==
    { r.user_id : r \in { x \in BagToSet(auth_tokens') :
                            CopiesIn(x, auth_tokens') > CopiesIn(x, auth_tokens) } }

\* C34: for a principal whose 2FA is Enabled, a token pair is issued only
\* after verify_2fa_login has succeeded in the same login flow, on every
\* path that calls create_tokens (password login, login with 2FA, magic-link
\* verification, OAuth callback): a step that stores a refresh token of such
\* a principal is a POST /login/2fa whose code verify_2fa_login accepts.
C34_TokensOnlyAfter2FA ==
    [][ \A u \in GainedTokens :
            Is2FAEnabled(two_factor, u)
               => /\ last'.op = "login_with_2fa"
                  /\ Verify2FALogin(two_factor, u, last'.code, now).outcome = "true"
      ]_vars

\* the part of C34 that holds: the two password endpoints
PasswordPathsAfter2FA ==
    [][ ( last'.op \in {"login", "login_with_2fa"} )
          => \A u \in GainedTokens :
                Is2FAEnabled(two_factor, u)
                   => /\ last'.op = "login_with_2fa"
                      /\ Verify2FALogin(two_factor, u, last'.code,
                                        now).outcome = "true"
      ]_vars

\* a magic link gave a token pair to a principal with 2FA Enabled
MagicLinkSkips2FA ==
    /\ last.op = "verify_magic_link_endpoint"
    /\ last.response.kind = "tokens"
    /\ last.had2FA

\* the OAuth callback gave a token pair to a principal with 2FA Enabled
OAuthCallbackSkips2FA ==
    /\ last.op = "oauth_callback"
    /\ last.response.kind = "tokens"
    /\ last.had2FA

\* POST /login/2fa gave a token pair after an accepted TOTP code
LoginWith2FAIssues ==
    /\ last.op = "login_with_2fa"
    /\ last.response.kind = "tokens"
    /\ last.had2FA

(***************************************************************************)
(* SpecInactive: the login endpoints and an administrator who clears       *)
(* users.is_active of the principal.                                       *)
(***************************************************************************)
NextInactive ==
    \/ \E password \in Passwords : LoginCall("a@x.com", password)
    \/ DeactivateUser("u1")
    \/ (tokenSeq < MaxLinks /\ IssueMagicLink(FALSE))
    \/ \E token \in Presentable : VerifyMagicLinkEndpointCall(token)
    \/ \E id \in FedIds, email \in { Some("a@x.com"), Some("c@x.com") },
          access_token \in FedAccessTokens :
          OAuthCallbackCall("google", access_token, id, email)

SpecInactive == InitLogin /\ [][NextInactive]_vars

\* C35: no login path issues a token pair to an inactive principal:
\* authenticate_user with the correct password, and authenticate_with_code
\* when it links by email to an existing local principal, reject a principal
\* whose is_active flag is false; so a step that stores a refresh token
\* stores it for a principal that is active.
C35_NoTokensForInactive ==
    [][ \A u \in GainedTokens : u \in DOMAIN users => users[u].is_active ]_vars

\* the part of C35 that holds: the magic link and the OAuth callback of an
\* account that is already linked refuse an inactive principal
LinkedPathsRefuseInactive ==
    [][ ( \/ last'.op = "verify_magic_link_endpoint"
          \/ /\ last'.op = "oauth_callback"
             /\ AccountsOf(oauth_accounts, last'.provider,
                           StrOfId(last'.user_info.id)) # EmptyBag )
          => \A u \in GainedTokens : u \in DOMAIN users => users[u].is_active
      ]_vars

\* POST /login with the correct password gave a token pair to an inactive
\* principal
LoginIssuesToInactive ==
    /\ last.op = "login"
    /\ last.response.kind = "tokens"
    /\ ~users["u1"].is_active

\* the OAuth callback linked by email and gave a token pair to an inactive
\* principal
OAuthLinkIssuesToInactive ==
    /\ last.op = "oauth_callback"
    /\ last.response.kind = "tokens"
    /\ last.user = Some("u1")
    /\ ~users["u1"].is_active

\* a magic link of a principal deactivated since was refused
MagicLinkEndpointRefusesInactive ==
    /\ last.op = "verify_magic_link_endpoint"
    /\ last.token # "bogus"
    /\ last.response.status = 401
    /\ ~users["u1"].is_active

(***************************************************************************)
(* C36: failed_login_attempts is reset to 0 only by a successful           *)
(* authenticate_user; while a lockout is active, attempts change neither   *)
(* the counter nor locked_until; expiry of the lockout does not reset the  *)
(* counter, so after a lockout has expired the next single password        *)
(* mismatch locks the account again for 30 minutes; and in every reachable *)
(* state locked_until set implies failed_login_attempts >= 5.              *)
(***************************************************************************)
C36_CounterAndLock ==
    [][ \A u \in DOMAIN users :
          LET row == users[u]
              new == users'[u]
          IN  /\ (new.failed_login_attempts = 0 /\ row.failed_login_attempts # 0)
                    => (last'.op = "authenticate_user" /\ last'.ok)
              /\ IsLocked(row, now)
                    => /\ new.failed_login_attempts = row.failed_login_attempts
                       /\ new.locked_until = row.locked_until
              /\ now' # now => new = row
              /\ ( /\ row.locked_until # None
                   /\ ~IsLocked(row, now)
                   /\ new.failed_login_attempts # row.failed_login_attempts
                   /\ new.failed_login_attempts # 0 )
                    => new.locked_until = Some(now + LOCKOUT_SECONDS)
              /\ new.locked_until # None
                    => new.failed_login_attempts >= LOCKOUT_THRESHOLD
      ]_vars

\* a call that loaded the row before the lockout committed after it:
\* locked_until is set and the counter is below the threshold
LockedBelowThreshold ==
    /\ users["u1"].locked_until # None
    /\ users["u1"].failed_login_attempts < LOCKOUT_THRESHOLD
    /\ \A w \in Workers : proc[w].pc = "idle"

\* calls that do not overlap: one mismatch after the lockout has expired
\* locks the account again
RelockedAfterExpiry ==
    /\ last.op = "authenticate_user"
    /\ last.user = Some("u1")
    /\ last.pre["u1"].locked_until # None
    /\ ~IsLocked(last.pre["u1"], last.at)
    /\ users["u1"].failed_login_attempts = LOCKOUT_THRESHOLD + 1
    /\ users["u1"].locked_until = Some(last.at + LOCKOUT_SECONDS)

(***************************************************************************)
(* SpecAfterReset: refresh tokens and password-reset tokens of a@x.com     *)
(* issued before a password reset or a password change, with no storage    *)
(* failure.                                                                *)
(***************************************************************************)
NextAfterReset ==
    \/ CreateTokensCall("u1")
    \/ SendPasswordResetCall("a@x.com", FALSE)
    \/ \E token \in Presentable, new_password \in Passwords :
          VerifyPasswordResetCall(token, new_password, FALSE, FALSE)
    \/ \E current_password \in Passwords, new_password \in Passwords :
          ChangePasswordCall("u1", current_password, new_password, FALSE,
                             "none")
    \/ \E raw \in issued : RefreshCall(raw)
    \/ TokensTick

SpecAfterReset == InitTokenSpec /\ [][NextAfterReset]_vars

\* the other reset tokens of principal u that the cache still redeems
OtherResetTokens(c, u, token, t) ==
    { tok \in Presentable \ {token} :
        LET d == CacheGet(c, TokenKey("password_reset", tok), FALSE, t)
        IN  d # None /\ d[1].user_id = u }

\* C37: after verify_password_reset has succeeded for a principal, no
\* credential artefact issued before the reset still grants access: every
\* other password-reset token issued earlier for that principal can no
\* longer be redeemed, and every refresh token issued before the reset is
\* revoked (as it is after change_password).
C37_ResetInvalidatesEarlier ==
    [][ ( /\ last'.op = "verify_password_reset"
          /\ last'.outcome = "true"
          /\ cache' # cache )
          => LET u == StoredReset(last'.token)[1].user_id
             IN  /\ OtherResetTokens(cache', u, last'.token, now) = {}
                 /\ ValidRowsOf(auth_tokens', u, now) = {}
      ]_vars

\* the part of C37 that holds: change_password leaves no valid refresh token
ChangePasswordRevokesAll ==
    [][ ( /\ last'.op = "change_password"
          /\ last'.status = 200
          /\ ValidRowsOf(auth_tokens, "u1", now) # {} )
          => ValidRowsOf(auth_tokens', "u1", now) = {}
      ]_vars

\* a refresh token issued before a password reset has just been exchanged
\* for an access token after it
RefreshAfterReset ==
    /\ last.op = "refresh_access_token"
    /\ last.ok
    /\ users["u1"].hashed_password # InitialUsers["u1"].hashed_password
    /\ users["u1"].password_reset_token = None
    /\ tokenSeq > 0

\* a reset has just succeeded and another reset token of the principal is
\* still redeemable
EarlierResetTokenLive ==
    /\ last.op = "verify_password_reset"
    /\ last.outcome = "true"
    /\ OtherResetTokens(cache, "u1", last.token, now) # {}

(***************************************************************************)
(* SpecCross: OAuth logins under two tenants, with one local principal in  *)
(* each.                                                                   *)
(***************************************************************************)
InitCross ==
    /\ now = 0
    /\ ticks = 0
    /\ users = [ InitialUsers EXCEPT !["u2"].tenant_id = "t2" ]
    /\ InitTokens
    /\ InitTwoFactor
    /\ InitMagic
    /\ InitMismatches
    /\ InitLast

NextCross ==
    \E provider_name \in FedProviderNames, access_token \in FedAccessTokens,
       id \in FedIds, email \in FedEmails, tenant_id \in FedTenantIds :
         AuthenticateWithCodeCall(provider_name, access_token, id, email,
                                  tenant_id)

SpecCross == InitCross /\ [][NextCross]_vars

\* C38: the principal returned by authenticate_with_code(provider, code,
\* redirectURI, tenantId) belongs to tenant tenantId on all three paths
\* (existing provider link, link by email, newly created principal): an
\* OAuth login under one tenant never returns or links a principal of
\* another tenant.
C38_ReturnedInTenant ==
    (last.op = "authenticate_with_code" /\ last.outcome = "ok")
        => users[last.user[1]].tenant_id = last.tenant_id

\* the part of C38 that holds: a principal the call creates is of the
\* tenant of the call
CreatedInTenant ==
    [][ ( /\ last'.op = "authenticate_with_code"
          /\ last'.outcome = "ok"
          /\ last'.user[1] \notin DOMAIN users )
          => users'[last'.user[1]].tenant_id = last'.tenant_id
      ]_vars

\* an OAuth login under tenant t1 linked by email to the principal of
\* tenant t2 and returned it
LinkedAcrossTenants ==
    /\ last.op = "authenticate_with_code"
    /\ last.outcome = "ok"
    /\ last.tenant_id = "t1"
    /\ last.user = Some("u2")
    /\ \E r \in DOMAIN oauth_accounts : r.user_id = "u2"

\* an OAuth login under tenant t1 created a principal of tenant t1
CreatedUnderTenant ==
    /\ last.op = "authenticate_with_code"
    /\ last.outcome = "ok"
    /\ last.user # None
    /\ last.user[1] \notin UserIds
    /\ users[last.user[1]].tenant_id = "t1"

(***************************************************************************)
(* SpecQuota: the requests of two clients, one at a time, checked by       *)
(* check_rate_limit over consecutive windows with a counter store that     *)
(* works.  The tally counts, per client, the requests made and admitted in *)
(* the current window.                                                     *)
(***************************************************************************)
Tally(l) == IF "tally" \in DOMAIN l THEN l.tally ELSE << >>
TallyOf(l, client_id, window) ==
    IF << client_id, window >> \in DOMAIN Tally(l)
    THEN Tally(l)[<< client_id, window >>]
    ELSE [ asked |-> 0, admitted |-> 0 ]

QuotaCall(request) ==
    LET client_id == GetClientIdentifier(request)
        window == now \div RATE_LIMIT_WINDOW
        r == CheckRateLimit(cache, request, NoRateFaults, now)
        before == TallyOf(last, client_id, window)
        kept == { k \in DOMAIN Tally(last) : k[2] = window }
    IN  /\ before.asked < RequestsPerWindow + 2
        /\ cache' = r.cache
        /\ last' = [ op |-> "check_rate_limit", request |-> request,
                     rate_key |-> RateLimitKey(client_id, now),
                     admitted |-> r.admitted,
                     tally |-> [ k \in kept \cup { << client_id, window >> } |->
                                   IF k = << client_id, window >>
                                   THEN [ asked |-> before.asked + 1,
                                          admitted |-> before.admitted
                                             + (IF r.admitted THEN 1 ELSE 0) ]
                                   ELSE Tally(last)[k] ] ]
        /\ UNCHANGED << clockVars, users, outbox, tokenSeq, proc, returned,
                        tokenVars, totpVars, mismatches, oauthVars >>

NextQuota ==
    \/ \E request \in RateRequests : QuotaCall(request)
    \/ TickRate

SpecQuota == InitRedeem /\ [][NextQuota]_vars

\* C39: with a healthy cache and requests of one client that do not
\* overlap, check_rate_limit admits exactly the first N = requests_per_window
\* requests of a window and rejects all later ones in that window; a
\* rejected request does not increment the counter, and the counter of a
\* window never exceeds N.
C39_ExactlyFirstN ==
    [][ (last'.op = "check_rate_limit" /\ now' = now) =>
          LET client_id == GetClientIdentifier(last'.request)
              window == now \div RATE_LIMIT_WINDOW
              before == TallyOf(last, client_id, window)
              rate_key == last'.rate_key
          IN  /\ last'.admitted <=> before.asked < RequestsPerWindow
              /\ ~last'.admitted => cache' = cache
              /\ last'.admitted =>
                    CountOf(cache', rate_key, now)
                        = CountOf(cache, rate_key, now) + 1
              /\ CountOf(cache, rate_key, now) = before.admitted
              /\ \A k \in DOMAIN cache' :
                    CountOf(cache', k, now) <= RequestsPerWindow
      ]_vars

\* in the window after the first, a client that was admitted N times has
\* just been rejected twice, the counter still at N
C39_Witness ==
    /\ last.op = "check_rate_limit"
    /\ ~last.admitted
    /\ now >= RATE_LIMIT_WINDOW
    /\ LET k == << GetClientIdentifier(last.request),
                   now \div RATE_LIMIT_WINDOW >>
       IN  /\ k \in DOMAIN last.tally
           /\ last.tally[k].asked = RequestsPerWindow + 2
           /\ last.tally[k].admitted = RequestsPerWindow
    /\ CountOf(cache, last.rate_key, now) = RequestsPerWindow

(***************************************************************************)
(* SpecReplay: the four operations that test a TOTP code, called for one   *)
(* principal whose second factor is Enabled at the start, over three time  *)
(* steps.  The codes that a call has accepted are kept beside the program  *)
(* state; the secret stays the same (setup_2fa is not called).             *)
(***************************************************************************)
ReplayOps == { "verify_2fa_login", "verify_2fa_setup", "disable_2fa",
               "regenerate_backup_codes" }

\* codes of the stored secret around the current step, and one of another
\* secret
ReplayCodes(t) ==
    { TotpAt("SECRETA", c) : c \in (TimeCode(t) - 2)..(TimeCode(t) + 1) }
        \cup { TotpAt("SECRETB", TimeCode(t)) }

\* the lists regenerate_backup_codes draws from here
ReplayNewCodes ==
    { [ i \in 1..BackupCount |-> TextCode(x) ] : x \in BackupTexts }

AcceptedCodes(l) == IF "accepted" \in DOMAIN l THEN l.accepted ELSE {}

\* what the operation does with the code
ReplayResult(op, tf, code, new_backup_codes, t) ==
    CASE op = "verify_2fa_login" -> Verify2FALogin(tf, "u1", code, t)
      [] op = "verify_2fa_setup" -> Verify2FASetup(tf, "u1", code, t)
      [] op = "disable_2fa" -> Disable2FA(tf, "u1", code, t)
      [] op = "regenerate_backup_codes" ->
            RegenerateBackupCodes(tf, "u1", code, new_backup_codes, t)

\* the operation gets as far as testing the code
TestsCode(op, tf) ==
    IF op = "verify_2fa_setup" THEN tf["u1"] # None
    ELSE Is2FAEnabled(tf, "u1")

ReplayCall(op, code) ==
    \E new_backup_codes \in ReplayNewCodes :
        LET r == ReplayResult(op, two_factor, code, new_backup_codes, now)
            ok == r.outcome \in {"true", "codes"}
        IN  /\ two_factor' = r.tf
            /\ needsSetup' = IF op = "disable_2fa" /\ ok
                             THEN needsSetup \cup {"u1"} ELSE needsSetup
            /\ last' = [ op |-> op, code |-> code, outcome |-> r.outcome,
                         ok |-> ok, at |-> now,
                         replay |-> code \in AcceptedCodes(last),
                         accepted |-> IF ok
                                      THEN AcceptedCodes(last) \cup {code}
                                      ELSE AcceptedCodes(last) ]
            /\ UNCHANGED << clockVars, othersTotp >>

NextReplay ==
    \/ \E op \in ReplayOps, code \in ReplayCodes(now) : ReplayCall(op, code)
    \/ TotpTick

InitReplay ==
    /\ InitBackup
    /\ Decrypt(two_factor["u1"][1].backup_codes) \in ReplayNewCodes

SpecReplay == InitReplay /\ [][NextReplay]_vars

ReplayRefusedWhenOld ==
    /\ last.op = "verify_2fa_login"
    /\ ~last.ok
    /\ last.replay
    /\ last.code = TotpAt("SECRETA", TimeCode(last.at) - 2)
    /\ Is2FAEnabled(two_factor, "u1")

==========================================================================
